---- MODULE Spec2Model ----
(***************************************************************************)
(* A model of the core ECMAScript parser of boa_engine:                    *)
(*   boa_engine/src/syntax/parser/mod.rs            (Parser, Script)       *)
(*   boa_engine/src/syntax/parser/statement/mod.rs  (statements, bindings) *)
(*                                                                         *)
(* The parser is a synchronous recursive-descent recogniser.  Every        *)
(* recogniser `X::parse(self, cursor, interner)` is an operator            *)
(* `X_parse(self, c)` from the recogniser's configuration `self` and a     *)
(* cursor value `c` to a result [err, val, c]: the error (NoError on       *)
(* success), the value returned and the cursor afterwards.  The loops of   *)
(* the statement-list driver and of the two binding-pattern recognisers    *)
(* are operators on the loop's local state (`X_iter` is one iteration),    *)
(* which the specifications below also run one iteration per step.         *)
(***************************************************************************)
EXTENDS Integers, Sequences, FiniteSets, TLC

VARIABLES
    tokens,     \* the token stream the lexer yields for the input
    cursor,     \* the Cursor: position, strict_mode, arrow, lexer goal
    config,     \* the configuration of the recogniser that was entered
    context,    \* the host execution context handed to parse_all
    pc,         \* where the entered recogniser stands
    frame,      \* the local variables of the loop that is running
    result      \* what the entered recogniser returned

vars == <<tokens, cursor, config, context, pc, frame, result>>

(***************************************************************************)
(* Tokens.  A token is its kind and its symbol; the i-th token of the      *)
(* input starts at Position(1, i) (the input is taken to be one line).     *)
(* EOF stands for the `None` that peek and next return at the end.         *)
(***************************************************************************)
Identifier(s) == [kind |-> "Identifier", sym |-> s]

Keyword(s) == [kind |-> "Keyword", sym |-> s]

Punctuator(s) == [kind |-> "Punctuator", sym |-> s]

StringLiteral(s) == [kind |-> "StringLiteral", sym |-> s]

NumericLiteral(s) == [kind |-> "NumericLiteral", sym |-> s]

EOF == [kind |-> "EOF", sym |-> ""]

Position(line, column) == <<line, column>>

\* Option<T>: None is the empty tuple, Some(x) the one-element tuple.
NoneOpt == <<>>

Some(x) == <<x>>

(***************************************************************************)
(* ParseError.  One record shape for every kind, so that errors compare.   *)
(***************************************************************************)
NoError == [kind |-> "NoError", message |-> "", found |-> "", position |-> <<0, 0>>, context |-> ""]

AbruptEnd == [kind |-> "AbruptEnd", message |-> "", found |-> "", position |-> <<0, 0>>, context |-> ""]

Expected(expected, found, position, ctx) == [kind |-> "Expected", message |-> expected, found |-> found, position |-> position, context |-> ctx]

Unexpected(found, position, ctx) == [kind |-> "Unexpected", message |-> "", found |-> found, position |-> position, context |-> ctx]

General(message, position) == [kind |-> "General", message |-> message, found |-> "", position |-> position, context |-> ""]

LexSyntax(message, position) == [kind |-> "Lex", message |-> message, found |-> "", position |-> position, context |-> ""]

Ok(val, c) == [err |-> NoError, val |-> val, c |-> c]

Err(e, c) == [err |-> e, val |-> <<>>, c |-> c]

IsOk(r) == r.err = NoError

(***************************************************************************)
(* The token cursor (its code is outside the two source files; the         *)
(* operations are those the recognisers call, as section 4.2 of the        *)
(* specification describes them).                                          *)
(***************************************************************************)
Cursor_new == [pos |-> 0, strict_mode |-> FALSE, arrow |-> FALSE, goal |-> "RegExp", log |-> <<>>]

\* peek(k): the token k positions ahead, EOF at the end; consumes nothing.
peek(c, k) == IF c.pos + k + 1 <= Len(tokens) THEN tokens[c.pos + k + 1] ELSE EOF

\* The start of the span of the token k positions ahead.
span_start(c, k) == Position(1, c.pos + k + 1)

\* next(): consumes the next token; at the end the cursor stays.
advance(c) == IF c.pos < Len(tokens) THEN [c EXCEPT !.pos = @ + 1] ELSE c

\* next_if(kind): consumes the next token iff it is `tok`.
next_if(c, tok) == IF peek(c, 0) = tok THEN advance(c) ELSE c

\* expect(kind, context): consumes the next token if it is `tok`.
expect(c, tok, ctx) ==
    IF peek(c, 0) = EOF THEN Err(AbruptEnd, c)
    ELSE IF peek(c, 0) = tok THEN Ok(tok, advance(c))
    ELSE Err(Expected(tok.sym, peek(c, 0).sym, span_start(c, 0), ctx), c)

\* expect_semicolon: a `;` is consumed; before `}` and at the end one is inserted.
expect_semicolon(c, ctx) ==
    IF peek(c, 0) = Punctuator(";") THEN Ok(<<>>, advance(c))
    ELSE IF peek(c, 0) = EOF \/ peek(c, 0) = Punctuator("}") THEN Ok(<<>>, c)
    ELSE Err(Expected(";", peek(c, 0).sym, span_start(c, 0), ctx), c)

set_goal(c, g) == [c EXCEPT !.goal = g, !.log = Append(@, "set_goal")]

set_strict_mode(c, b) == [c EXCEPT !.strict_mode = b]

set_arrow(c, b) == [c EXCEPT !.arrow = b]

\* Records that the recogniser `name` was entered (the log is how the
\* properties below see which recognisers a dispatcher invoked).
enter(c, name) == [c EXCEPT !.log = Append(@, name)]

\* Records a peek at offset k >= 1 (a lookahead past the next token).
lookahead(c, k) == [c EXCEPT !.log = Append(@, IF k = 1 THEN "peek(1)" ELSE "peek(2)")]

RECURSIVE ObjectBindingPattern_parse(_, _)
RECURSIVE ObjectBindingPattern_loop(_, _)
RECURSIVE ObjectBindingPattern_iter(_, _)
RECURSIVE ArrayBindingPattern_parse(_, _)
RECURSIVE ArrayBindingPattern_loop(_, _)
RECURSIVE ArrayBindingPattern_iter(_, _)

(***************************************************************************)
(* BindingIdentifier::parse.  self = [allow_yield, allow_await].           *)
(* The match arms are tried in the order of the source, grouped by the     *)
(* token they match.                                                       *)
(***************************************************************************)
BindingIdentifier_new(allow_yield, allow_await) == [allow_yield |-> allow_yield, allow_await |-> allow_await]

\* BindingIdentifier_name that lets `let` through in strict mode.
BindingIdentifier_name_sloppy(next_token, c, start) ==
    IF next_token = Identifier("arguments") /\ c.strict_mode
    THEN Err(LexSyntax("unexpected identifier 'arguments' in strict mode", start), c)
    ELSE IF next_token = Identifier("eval") /\ c.strict_mode
        THEN Err(LexSyntax("unexpected identifier 'eval' in strict mode", start), c)
    ELSE Ok(next_token.sym, c)

\* The arms of an identifier and of the keyword `let`.
BindingIdentifier_name(next_token, c, start) ==
    IF next_token = Identifier("arguments") /\ c.strict_mode
    THEN Err(LexSyntax("unexpected identifier 'arguments' in strict mode", start), c)
    ELSE IF next_token = Identifier("eval") /\ c.strict_mode
        THEN Err(LexSyntax("unexpected identifier 'eval' in strict mode", start), c)
    ELSE IF next_token = Keyword("let") /\ c.strict_mode
        THEN Err(LexSyntax("unexpected identifier 'let' in strict mode", start), c)
    ELSE IF next_token = Keyword("let") THEN Ok("let", c)
    ELSE Ok(next_token.sym, c)

\* BindingIdentifier_yield without the strict-mode check.
BindingIdentifier_yield_sloppy(self, c, start) ==
    IF self.allow_yield THEN Err(General("Unexpected identifier", start), c)
    ELSE Ok("yield", c)

\* The arms of the keyword `yield`.
BindingIdentifier_yield(self, c, start) ==
    IF self.allow_yield THEN Err(General("Unexpected identifier", start), c)
    ELSE IF c.strict_mode
        THEN Err(General("yield keyword in binding identifier not allowed in strict mode", start), c)
    ELSE Ok("yield", c)

\* BindingIdentifier_await with the arrow arm after the allow_await arm.
BindingIdentifier_await_late(self, c, start) ==
    IF self.allow_await THEN Err(General("Unexpected identifier", start), c)
    ELSE IF c.arrow THEN Ok("await", c)
    ELSE IF c.strict_mode
        THEN Err(General("await keyword in binding identifier not allowed in strict mode", start), c)
    ELSE Ok("await", c)

\* The arms of the keyword `await`.
BindingIdentifier_await(self, c, start) ==
    IF c.arrow THEN Ok("await", c)
    ELSE IF self.allow_await THEN Err(General("Unexpected identifier", start), c)
    ELSE IF c.strict_mode
        THEN Err(General("await keyword in binding identifier not allowed in strict mode", start), c)
    ELSE Ok("await", c)

BindingIdentifier_parse(self, c0) ==
    LET next_token == peek(c0, 0)
        start == span_start(c0, 0)
        c == advance(c0)
    IN  IF next_token = EOF THEN Err(AbruptEnd, c0)
        ELSE IF next_token.kind = "Identifier" \/ next_token = Keyword("let")
            THEN BindingIdentifier_name(next_token, c, start)
        ELSE IF next_token = Keyword("yield") THEN BindingIdentifier_yield(self, c, start)
        ELSE IF next_token = Keyword("await") THEN BindingIdentifier_await(self, c, start)
        ELSE Err(Expected("identifier", next_token.sym, start, "binding identifier"), c)

(***************************************************************************)
(* Recognisers of the expression grammar that the binding patterns call    *)
(* (outside the two source files).  An expression is one primary token.    *)
(***************************************************************************)
IsPrimary(tok) == tok.kind \in {"Identifier", "NumericLiteral", "StringLiteral"}

\* Initializer: `=` AssignmentExpression.
Initializer_parse(c0) ==
    LET e == expect(c0, Punctuator("="), "initializer")
    IN  IF ~IsOk(e) THEN e
        ELSE IF peek(e.c, 0) = EOF THEN Err(AbruptEnd, e.c)
        ELSE IF IsPrimary(peek(e.c, 0)) THEN Ok([type |-> "Expression", tok |-> peek(e.c, 0)], advance(e.c))
        ELSE Err(Expected("expression", peek(e.c, 0).sym, span_start(e.c, 0), "primary expression"), e.c)

\* PropertyName: an identifier, keyword, string or number is a literal name
\* (prop_name() is Some); `[` AssignmentExpression `]` is computed (None).
PropertyName_parse(c0) ==
    LET tok == peek(c0, 0)
    IN  IF tok = EOF THEN Err(AbruptEnd, c0)
        ELSE IF tok = Punctuator("[")
            THEN IF peek(c0, 1) = EOF THEN Err(AbruptEnd, advance(c0))
                 ELSE IF ~IsPrimary(peek(c0, 1))
                     THEN Err(Expected("expression", peek(c0, 1).sym, span_start(c0, 1), "primary expression"), advance(c0))
                 ELSE LET e == expect(advance(advance(c0)), Punctuator("]"), "property name")
                      IN  IF IsOk(e) THEN Ok([computed |-> TRUE, name |-> peek(c0, 1).sym], e.c) ELSE e
        ELSE IF tok.kind \in {"Identifier", "Keyword", "StringLiteral", "NumericLiteral"}
            THEN Ok([computed |-> FALSE, name |-> tok.sym], advance(c0))
        ELSE Err(Expected("property name", tok.sym, span_start(c0, 0), "property name"), c0)

prop_name(property_name) == IF property_name.computed THEN NoneOpt ELSE Some(property_name.name)

(***************************************************************************)
(* Binding-pattern descriptors (ast::node::declaration).  A nested pattern *)
(* is [form, bindings, init], form being "Object" or "Array".              *)
(***************************************************************************)
Elision == [type |-> "Elision"]

Empty == [type |-> "Empty"]

RestTypes == {"SingleNameRest", "BindingPatternRest", "RestProperty"}

\* The state of a recogniser's loop with the error `e` raised in it.
Raise(st, e, c) == [st EXCEPT !.err = e, !.c = c]

\* The loop's locals with `element` pushed and the cursor at `c`.
Push(st, element, c) == [st EXCEPT !.c = c, !.patterns = Append(@, element)]

(***************************************************************************)
(* ObjectBindingPattern::parse.  self = [allow_in, allow_yield,            *)
(* allow_await].  The loop's locals are st = [c, patterns, property_names, *)
(* rest_property_name, done, err].  An operator whose last parameter is a  *)
(* result (r, e, init, bindings) is the code that follows the call which   *)
(* returned that result.                                                   *)
(***************************************************************************)
ObjectBindingPattern_new(allow_in, allow_yield, allow_await) == [allow_in |-> allow_in, allow_yield |-> allow_yield, allow_await |-> allow_await]

\* The `...` arm, after the closing brace was expected: `break`.
ObjectBindingPattern_rest_close(st, e) ==
    IF IsOk(e) THEN [st EXCEPT !.c = e.c, !.done = TRUE] ELSE Raise(st, e.err, e.c)

\* The `...` arm, after the rest property's name was parsed.
ObjectBindingPattern_rest_name(st, r) ==
    IF IsOk(r)
    THEN ObjectBindingPattern_rest_close([st EXCEPT !.rest_property_name = Some(r.val)],
                                         expect(r.c, Punctuator("}"), "object binding pattern"))
    ELSE Raise(st, r.err, r.c)

\* The `...` arm.
ObjectBindingPattern_rest(self, st) ==
    ObjectBindingPattern_rest_name(st, BindingIdentifier_parse(BindingIdentifier_new(self.allow_yield, self.allow_await), advance(st.c)))

\* The push of an element whose initializer was parsed.
ObjectBindingPattern_push_init(st, element, init) ==
    IF IsOk(init) THEN Push(st, [element EXCEPT !.default_init = Some(init.val)], init.c)
    ELSE Raise(st, init.err, init.c)

\* After the binding of `PropertyName : binding`: the optional initializer
\* and the push.  Nothing is pushed when the input ends here.
ObjectBindingPattern_property_push(st, element, c) ==
    IF peek(c, 0) = EOF THEN [st EXCEPT !.c = c]
    ELSE IF peek(c, 0) = Punctuator("=") THEN ObjectBindingPattern_push_init(st, element, Initializer_parse(c))
    ELSE Push(st, element, c)

\* `PropertyName : {...}` and `PropertyName : [...]`, after the nested pattern.
ObjectBindingPattern_property_nested(st, property_name, form, bindings) ==
    IF IsOk(bindings)
    THEN ObjectBindingPattern_property_push(st,
             [type |-> "BindingPattern", ident |-> property_name,
              pattern |-> [form |-> form, bindings |-> bindings.val, init |-> NoneOpt], default_init |-> NoneOpt],
             bindings.c)
    ELSE Raise(st, bindings.err, bindings.c)

\* `PropertyName : BindingIdentifier`, after the identifier.
ObjectBindingPattern_property_single(st, property_name, ident) ==
    IF IsOk(ident)
    THEN ObjectBindingPattern_property_push(st,
             [type |-> "SingleName", ident |-> ident.val, property_name |-> property_name, default_init |-> NoneOpt],
             ident.c)
    ELSE Raise(st, ident.err, ident.c)

\* After `PropertyName :`, the binding is chosen by the next token.
ObjectBindingPattern_property_binding(self, st, property_name, e) ==
    IF ~IsOk(e) THEN Raise(st, e.err, e.c)
    ELSE IF peek(e.c, 0) = EOF THEN [st EXCEPT !.c = e.c]
    ELSE IF peek(e.c, 0) = Punctuator("{")
        THEN ObjectBindingPattern_property_nested(st, property_name, "Object", ObjectBindingPattern_parse(self, e.c))
    ELSE IF peek(e.c, 0) = Punctuator("[")
        THEN ObjectBindingPattern_property_nested(st, property_name, "Array", ArrayBindingPattern_parse(self, e.c))
    ELSE ObjectBindingPattern_property_single(st, property_name,
             BindingIdentifier_parse(BindingIdentifier_new(self.allow_yield, self.allow_await), e.c))

\* ObjectBindingPattern_property_name that does not record the name.
ObjectBindingPattern_property_name_unrecorded(self, st, pn) ==
    IF IsOk(pn)
    THEN ObjectBindingPattern_property_binding(self, st, pn.val, expect(pn.c, Punctuator(":"), "object binding pattern"))
    ELSE Raise(st, pn.err, pn.c)

\* The arm of an explicit property name, after the name was parsed.
ObjectBindingPattern_property_name(self, st, pn) ==
    IF IsOk(pn)
    THEN ObjectBindingPattern_property_binding(self,
             IF prop_name(pn.val) # NoneOpt THEN [st EXCEPT !.property_names = Append(@, prop_name(pn.val)[1])] ELSE st,
             pn.val,
             expect(pn.c, Punctuator(":"), "object binding pattern"))
    ELSE Raise(st, pn.err, pn.c)

\* The arm of an explicit property name.
ObjectBindingPattern_property(self, st) == ObjectBindingPattern_property_name(self, st, PropertyName_parse(st.c))

\* The shorthand arm, after the identifier was parsed.
ObjectBindingPattern_shorthand_name(st, name) ==
    IF ~IsOk(name) THEN Raise(st, name.err, name.c)
    ELSE IF peek(name.c, 0) = Punctuator("=")
        THEN ObjectBindingPattern_push_init([st EXCEPT !.property_names = Append(@, name.val)],
                 [type |-> "SingleName", ident |-> name.val, property_name |-> [computed |-> FALSE, name |-> name.val], default_init |-> NoneOpt],
                 Initializer_parse(name.c))
    ELSE Push([st EXCEPT !.property_names = Append(@, name.val)],
              [type |-> "SingleName", ident |-> name.val, property_name |-> [computed |-> FALSE, name |-> name.val], default_init |-> NoneOpt],
              name.c)

\* The arm of the shorthand `BindingIdentifier Initializer?`.
ObjectBindingPattern_shorthand(self, st) ==
    ObjectBindingPattern_shorthand_name(st, BindingIdentifier_parse(BindingIdentifier_new(self.allow_yield, self.allow_await), st.c))

\* The end of an iteration: one `,` is consumed if it is there.
ObjectBindingPattern_comma(st) ==
    IF st.err # NoError THEN st
    ELSE IF peek(st.c, 0) = Punctuator(",") THEN [st EXCEPT !.c = advance(@)]
    ELSE st

\* Whether the token at the head of an iteration starts a PropertyName.
is_property_name(token, next_token_is_colon) ==
    \/ token = Punctuator("[")
    \/ token.kind = "StringLiteral"
    \/ token.kind = "NumericLiteral"
    \/ token.kind = "Identifier" /\ next_token_is_colon
    \/ token.kind = "Keyword" /\ next_token_is_colon

\* One iteration of the loop.
ObjectBindingPattern_iter(self, st) ==
    IF peek(st.c, 1) = EOF THEN Raise(st, AbruptEnd, st.c)
    ELSE IF peek(st.c, 0) = Punctuator("}") THEN [st EXCEPT !.c = advance(@), !.done = TRUE]
    ELSE IF peek(st.c, 0) = Punctuator("...") THEN ObjectBindingPattern_rest(self, st)
    ELSE IF is_property_name(peek(st.c, 0), peek(st.c, 1) = Punctuator(":"))
        THEN ObjectBindingPattern_comma(ObjectBindingPattern_property(self, st))
    ELSE ObjectBindingPattern_comma(ObjectBindingPattern_shorthand(self, st))

ObjectBindingPattern_loop(self, st) ==
    IF st.done \/ st.err # NoError THEN st
    ELSE ObjectBindingPattern_loop(self, ObjectBindingPattern_iter(self, st))

\* The locals at the start of the loop, after the opening brace.
ObjectBindingPattern_enter(c) == [c |-> c, patterns |-> <<>>, property_names |-> <<>>, rest_property_name |-> NoneOpt, done |-> FALSE, err |-> NoError]

\* ObjectBindingPattern_result that fills an empty element list with Empty
\* before it looks at the rest property.
ObjectBindingPattern_result_padded(st) ==
    IF st.err # NoError THEN Err(st.err, st.c)
    ELSE IF st.rest_property_name # NoneOpt
        THEN Ok(Append(IF st.patterns = <<>> THEN <<Empty>> ELSE st.patterns,
                       [type |-> "RestProperty", ident |-> st.rest_property_name[1], excluded_keys |-> st.property_names]), st.c)
    ELSE IF st.patterns = <<>> THEN Ok(<<Empty>>, st.c)
    ELSE Ok(st.patterns, st.c)

\* The value returned once the loop has ended.
ObjectBindingPattern_result(st) ==
    IF st.err # NoError THEN Err(st.err, st.c)
    ELSE IF st.rest_property_name # NoneOpt
        THEN IF st.patterns = <<>>
             THEN Ok(<<[type |-> "RestProperty", ident |-> st.rest_property_name[1], excluded_keys |-> st.property_names]>>, st.c)
             ELSE Ok(Append(st.patterns, [type |-> "RestProperty", ident |-> st.rest_property_name[1], excluded_keys |-> st.property_names]), st.c)
    ELSE IF st.patterns = <<>> THEN Ok(<<Empty>>, st.c)
    ELSE Ok(st.patterns, st.c)

\* After the opening brace was expected.
ObjectBindingPattern_open(self, e) ==
    IF IsOk(e) THEN ObjectBindingPattern_result(ObjectBindingPattern_loop(self, ObjectBindingPattern_enter(e.c)))
    ELSE e

ObjectBindingPattern_parse(self, c) == ObjectBindingPattern_open(self, expect(c, Punctuator("{"), "object binding pattern"))

(***************************************************************************)
(* ArrayBindingPattern::parse.  self = [allow_in, allow_yield,             *)
(* allow_await].  The loop's locals are st = [c, patterns,                 *)
(* last_elision_or_first, done, err].                                      *)
(***************************************************************************)
ArrayBindingPattern_new(allow_in, allow_yield, allow_await) == [allow_in |-> allow_in, allow_yield |-> allow_yield, allow_await |-> allow_await]

\* ArrayBindingPattern_elision that does not consume the comma.
ArrayBindingPattern_elision_unconsumed(st) ==
    IF st.last_elision_or_first
    THEN [st EXCEPT !.patterns = Append(@, Elision)]
    ELSE [st EXCEPT !.last_elision_or_first = TRUE]

\* The `,` arm at the head of an iteration (it ends with `continue`).
ArrayBindingPattern_elision(st) ==
    IF st.last_elision_or_first
    THEN [st EXCEPT !.c = advance(@), !.patterns = Append(@, Elision)]
    ELSE [st EXCEPT !.c = advance(@), !.last_elision_or_first = TRUE]

\* ArrayBindingPattern_rest_close without the requirement of the closing
\* bracket: the loop goes on after a rest element.
ArrayBindingPattern_rest_close_open(st, e) ==
    IF IsOk(e) THEN [st EXCEPT !.c = e.c, !.done = TRUE] ELSE st

\* The `...` arm, after the closing bracket was expected: `break`.
ArrayBindingPattern_rest_close(st, e) ==
    IF IsOk(e) THEN [st EXCEPT !.c = e.c, !.done = TRUE] ELSE Raise(st, e.err, e.c)

\* The `...` arm, after a nested rest pattern was parsed.
ArrayBindingPattern_rest_pattern(st, form, bindings) ==
    IF IsOk(bindings)
    THEN ArrayBindingPattern_rest_close(
             Push(st, [type |-> "BindingPatternRest", pattern |-> [form |-> form, bindings |-> bindings.val, init |-> NoneOpt]], bindings.c),
             expect(bindings.c, Punctuator("]"), "array binding pattern"))
    ELSE Raise(st, bindings.err, bindings.c)

\* The `...` arm, after the rest identifier was parsed.
ArrayBindingPattern_rest_name(st, r) ==
    IF IsOk(r)
    THEN ArrayBindingPattern_rest_close(
             Push(st, [type |-> "SingleNameRest", ident |-> r.val], r.c),
             expect(r.c, Punctuator("]"), "array binding pattern"))
    ELSE Raise(st, r.err, r.c)

\* The `...` arm; c is the cursor after the `...`.
ArrayBindingPattern_rest(self, st, c) ==
    IF peek(c, 0) = EOF THEN Raise(st, AbruptEnd, c)
    ELSE IF peek(c, 0) = Punctuator("{")
        THEN ArrayBindingPattern_rest_pattern(st, "Object", ObjectBindingPattern_parse(self, c))
    ELSE IF peek(c, 0) = Punctuator("[")
        THEN ArrayBindingPattern_rest_pattern(st, "Array", ArrayBindingPattern_parse(self, c))
    ELSE ArrayBindingPattern_rest_name(st, BindingIdentifier_parse(BindingIdentifier_new(self.allow_yield, self.allow_await), c))

\* The push of a nested pattern whose initializer was parsed.
ArrayBindingPattern_pattern_init(st, element, init) ==
    IF IsOk(init) THEN Push(st, [element EXCEPT !.pattern.init = Some(init.val)], init.c)
    ELSE Raise(st, init.err, init.c)

\* The `{` and `[` arms, after the nested pattern was parsed.
ArrayBindingPattern_pattern(st, form, bindings) ==
    IF ~IsOk(bindings) THEN Raise(st, bindings.err, bindings.c)
    ELSE IF peek(bindings.c, 0) = EOF THEN Raise(st, AbruptEnd, bindings.c)
    ELSE IF peek(bindings.c, 0) = Punctuator("=")
        THEN ArrayBindingPattern_pattern_init(st,
                 [type |-> "BindingPattern", pattern |-> [form |-> form, bindings |-> bindings.val, init |-> NoneOpt]],
                 Initializer_parse(bindings.c))
    ELSE Push(st, [type |-> "BindingPattern", pattern |-> [form |-> form, bindings |-> bindings.val, init |-> NoneOpt]], bindings.c)

\* The push of a single name whose initializer was parsed.
ArrayBindingPattern_single_init(st, element, init) ==
    IF IsOk(init) THEN Push(st, [element EXCEPT !.default_init = Some(init.val)], init.c)
    ELSE Raise(st, init.err, init.c)

\* The arm of a single name, after the identifier was parsed.
ArrayBindingPattern_single(st, ident) ==
    IF ~IsOk(ident) THEN Raise(st, ident.err, ident.c)
    ELSE IF peek(ident.c, 0) = EOF THEN Raise(st, AbruptEnd, ident.c)
    ELSE IF peek(ident.c, 0) = Punctuator("=")
        THEN ArrayBindingPattern_single_init(st,
                 [type |-> "SingleName", ident |-> ident.val, default_init |-> NoneOpt],
                 Initializer_parse(ident.c))
    ELSE Push(st, [type |-> "SingleName", ident |-> ident.val, default_init |-> NoneOpt], ident.c)

\* The arms of a binding element; st has last_elision_or_first cleared.
ArrayBindingPattern_element(self, st) ==
    IF peek(st.c, 0) = Punctuator("{")
    THEN ArrayBindingPattern_pattern(st, "Object", ObjectBindingPattern_parse(self, st.c))
    ELSE IF peek(st.c, 0) = Punctuator("[")
        THEN ArrayBindingPattern_pattern(st, "Array", ArrayBindingPattern_parse(self, st.c))
    ELSE ArrayBindingPattern_single(st, BindingIdentifier_parse(BindingIdentifier_new(self.allow_yield, self.allow_await), st.c))

\* ArrayBindingPattern_comma with the flag ignored: the comma that follows an
\* element is counted as an elision.
ArrayBindingPattern_comma_counted(st) ==
    IF st.err # NoError THEN st
    ELSE IF peek(st.c, 0) = Punctuator(",")
        THEN [st EXCEPT !.c = advance(@), !.patterns = Append(@, Elision), !.last_elision_or_first = TRUE]
    ELSE st

\* The end of an iteration: one `,` is consumed if it is there.
ArrayBindingPattern_comma(st) ==
    IF st.err # NoError THEN st
    ELSE IF peek(st.c, 0) = Punctuator(",")
        THEN IF st.last_elision_or_first
             THEN [st EXCEPT !.c = advance(@), !.patterns = Append(@, Elision)]
             ELSE [st EXCEPT !.c = advance(@), !.last_elision_or_first = TRUE]
    ELSE st

\* One iteration of the loop.
ArrayBindingPattern_iter(self, st) ==
    IF peek(st.c, 0) = EOF THEN Raise(st, AbruptEnd, st.c)
    ELSE IF peek(st.c, 0) = Punctuator("]") THEN [st EXCEPT !.c = advance(@), !.done = TRUE]
    ELSE IF peek(st.c, 0) = Punctuator(",") THEN ArrayBindingPattern_elision(st)
    ELSE IF peek(st.c, 0) = Punctuator("...") THEN ArrayBindingPattern_rest(self, st, advance(st.c))
    ELSE ArrayBindingPattern_comma(ArrayBindingPattern_element(self, [st EXCEPT !.last_elision_or_first = FALSE]))

ArrayBindingPattern_loop(self, st) ==
    IF st.done \/ st.err # NoError THEN st
    ELSE ArrayBindingPattern_loop(self, ArrayBindingPattern_iter(self, st))

\* The locals at the start of the loop, after the opening bracket.
ArrayBindingPattern_enter(c) == [c |-> c, patterns |-> <<>>, last_elision_or_first |-> TRUE, done |-> FALSE, err |-> NoError]

\* The value returned once the loop has ended.
ArrayBindingPattern_result(st) == IF st.err # NoError THEN Err(st.err, st.c) ELSE Ok(st.patterns, st.c)

\* After the opening bracket was expected.
ArrayBindingPattern_open(self, e) ==
    IF IsOk(e) THEN ArrayBindingPattern_result(ArrayBindingPattern_loop(self, ArrayBindingPattern_enter(e.c)))
    ELSE e

ArrayBindingPattern_parse(self, c) == ArrayBindingPattern_open(self, expect(c, Punctuator("["), "array binding pattern"))

(***************************************************************************)
(* Recognisers of single statement kinds and of declarations, and the AST  *)
(* queries (outside the two source files).  Every one of them records its  *)
(* entry in the cursor's log.  A node is a record with a `type`.           *)
(***************************************************************************)
\* A statement's node once its terminating semicolon was expected.
Terminated(node, e) == IF IsOk(e) THEN Ok(node, e.c) ELSE e

\* ExpressionStatement: one primary token and a semicolon.  `await` is an
\* identifier reference where await expressions are not allowed.
ExpressionStatement_parse(self, c0) ==
    IF peek(c0, 0) = EOF THEN Err(AbruptEnd, enter(c0, "ExpressionStatement"))
    ELSE IF IsPrimary(peek(c0, 0)) \/ (peek(c0, 0) = Keyword("await") /\ ~self.allow_await)
        THEN Terminated([type |-> "Expression", tok |-> peek(c0, 0)],
                        expect_semicolon(advance(enter(c0, "ExpressionStatement")), "expression statement"))
    ELSE Err(Unexpected(peek(c0, 0).sym, span_start(c0, 0), "primary expression"), enter(c0, "ExpressionStatement"))

\* AwaitExpression: `await` and one primary token.
AwaitExpression_operand(e) ==
    IF ~IsOk(e) THEN e
    ELSE IF peek(e.c, 0) = EOF THEN Err(AbruptEnd, e.c)
    ELSE IF IsPrimary(peek(e.c, 0)) THEN Ok([type |-> "AwaitExpr", tok |-> peek(e.c, 0)], advance(e.c))
    ELSE Err(Unexpected(peek(e.c, 0).sym, span_start(e.c, 0), "primary expression"), e.c)

AwaitExpression_parse(allow_yield, c0) ==
    AwaitExpression_operand(expect(enter(c0, "AwaitExpression"), Keyword("await"), "Await expression parsing"))

\* ReturnStatement: `return`, an optional primary token and a semicolon.
ReturnStatement_operand(e) ==
    IF ~IsOk(e) THEN e
    ELSE IF IsPrimary(peek(e.c, 0))
        THEN Terminated([type |-> "Return", tok |-> peek(e.c, 0)], expect_semicolon(advance(e.c), "return statement"))
    ELSE Terminated([type |-> "Return", tok |-> EOF], expect_semicolon(e.c, "return statement"))

ReturnStatement_parse(self, c0) ==
    ReturnStatement_operand(expect(enter(c0, "ReturnStatement"), Keyword("return"), "return statement"))

\* The recognisers of `if`, `while`, `do`, `for`, `break`, `continue`, `try`,
\* `throw` and `switch`: the statement is its keyword and its terminator.
KeywordStatement_parse(name, self, c0) ==
    Terminated([type |-> name, tok |-> peek(c0, 0)], expect_semicolon(advance(enter(c0, name)), name))

RECURSIVE BoundNames(_)
\* The identifiers a list of binding-pattern descriptors binds, in order.
BoundNames(bindings) ==
    IF bindings = <<>> THEN <<>>
    ELSE (IF Head(bindings).type \in {"SingleName", "SingleNameRest", "RestProperty"} THEN <<Head(bindings).ident>>
          ELSE IF Head(bindings).type \in {"BindingPattern", "BindingPatternRest"} THEN BoundNames(Head(bindings).pattern.bindings)
          ELSE <<>>)
         \o BoundNames(Tail(bindings))

\* A declarator `binding Initializer?`: the names it binds.
Declarator_init(names, init) == IF IsOk(init) THEN Ok(names, init.c) ELSE init

Declarator_names(names, c) ==
    IF peek(c, 0) = Punctuator("=") THEN Declarator_init(names, Initializer_parse(c)) ELSE Ok(names, c)

Declarator_pattern(bindings) == IF IsOk(bindings) THEN Declarator_names(BoundNames(bindings.val), bindings.c) ELSE bindings

Declarator_ident(ident) == IF IsOk(ident) THEN Declarator_names(<<ident.val>>, ident.c) ELSE ident

Declarator_parse(self, c) ==
    IF peek(c, 0) = Punctuator("{")
    THEN Declarator_pattern(ObjectBindingPattern_parse(ObjectBindingPattern_new(TRUE, self.allow_yield, self.allow_await), c))
    ELSE IF peek(c, 0) = Punctuator("[")
        THEN Declarator_pattern(ArrayBindingPattern_parse(ArrayBindingPattern_new(TRUE, self.allow_yield, self.allow_await), c))
    ELSE Declarator_ident(BindingIdentifier_parse(BindingIdentifier_new(self.allow_yield, self.allow_await), c))

\* The node of a declaration list once its declarator was parsed.
DeclList(type, names, ctx) ==
    IF IsOk(names) THEN Terminated([type |-> type, names |-> names.val], expect_semicolon(names.c, ctx)) ELSE names

\* VariableStatement: `var`, one declarator and a semicolon.
VariableStatement_parse(self, c0) ==
    DeclList("VarDeclList", Declarator_parse(self, advance(enter(c0, "VariableStatement"))), "variable statement")

RECURSIVE expect_all(_, _, _)
\* expect() of each token of `toks` in turn.
expect_all(e, toks, ctx) ==
    IF ~IsOk(e) \/ toks = <<>> THEN e
    ELSE expect_all(expect(e.c, Head(toks), ctx), Tail(toks), ctx)

\* The node of a function or class declaration once its name and the
\* tokens of its (empty) parameter list and body were expected.
Declaration_tail(type, name, e) == IF IsOk(e) THEN Ok([type |-> type, name |-> name], e.c) ELSE e

Declaration_named(type, name, toks, ctx) ==
    IF IsOk(name) THEN Declaration_tail(type, name.val, expect_all(name, toks, ctx)) ELSE name

FunctionTokens == <<Punctuator("("), Punctuator(")"), Punctuator("{"), Punctuator("}")>>

ClassTokens == <<Punctuator("{"), Punctuator("}")>>

\* Declaration: `function f(){}`, `async function f(){}`, `class C {}`,
\* `let` and `const` with one declarator.
Declaration_parse(self, c0) ==
    IF peek(c0, 0) = Keyword("function")
    THEN Declaration_named("FunctionDecl",
             BindingIdentifier_parse(BindingIdentifier_new(self.allow_yield, self.allow_await), advance(enter(c0, "Declaration"))),
             FunctionTokens, "function declaration")
    ELSE IF peek(c0, 0) = Keyword("async")
        THEN Declaration_named("AsyncFunctionDecl",
                 BindingIdentifier_parse(BindingIdentifier_new(self.allow_yield, self.allow_await),
                                         next_if(advance(enter(c0, "Declaration")), Keyword("function"))),
                 FunctionTokens, "async function declaration")
    ELSE IF peek(c0, 0) = Keyword("class")
        THEN Declaration_named("ClassDecl",
                 BindingIdentifier_parse(BindingIdentifier_new(self.allow_yield, self.allow_await), advance(enter(c0, "Declaration"))),
                 ClassTokens, "class declaration")
    ELSE IF peek(c0, 0) = Keyword("let")
        THEN DeclList("LetDeclList", Declarator_parse(self, advance(enter(c0, "Declaration"))), "lexical declaration")
    ELSE DeclList("ConstDeclList", Declarator_parse(self, advance(enter(c0, "Declaration"))), "lexical declaration")

\* Node::hoistable_order: function and generator declarations come first.
IsHoistable(node) == node.type \in {"FunctionDecl", "GeneratorDecl"}

hoistable_order(a, b) ==
    IF IsHoistable(a) /\ IsHoistable(b) THEN "Equal"
    ELSE IF IsHoistable(b) THEN "Greater"
    ELSE IF IsHoistable(a) THEN "Less"
    ELSE "Equal"

RECURSIVE lexically_declared_names(_)
\* StatementList::lexically_declared_names: the (name, is_function_declaration)
\* pairs of the items of the list, in order.
lexically_declared_names(items) ==
    IF items = <<>> THEN <<>>
    ELSE (IF Head(items).type = "FunctionDecl" THEN <<<<Head(items).name, TRUE>>>>
          ELSE IF Head(items).type \in {"AsyncFunctionDecl", "ClassDecl"} THEN <<<<Head(items).name, FALSE>>>>
          ELSE IF Head(items).type \in {"LetDeclList", "ConstDeclList"}
              THEN [i \in 1..Len(Head(items).names) |-> <<Head(items).names[i], FALSE>>]
          ELSE <<>>)
         \o lexically_declared_names(Tail(items))

RECURSIVE var_declared_names(_)
\* StatementList::var_declared_names_new: the names of the `var`
\* declarations of the list, those of nested statements included.
var_declared_names(items) ==
    IF items = <<>> THEN {}
    ELSE (IF Head(items).type = "VarDeclList" THEN {Head(items).names[i] : i \in 1..Len(Head(items).names)}
          ELSE IF Head(items).type = "Block" THEN var_declared_names(Head(items).items)
          ELSE IF Head(items).type = "Labelled" THEN var_declared_names(<<Head(items).body>>)
          ELSE {})
         \cup var_declared_names(Tail(items))

\* Context::has_binding.
has_binding(ctx, name) == name \in ctx.bindings

\* The descriptor of the string-keyed property `name` of the global
\* property map: "absent" when there is none, else its configurable().
configurable(ctx, name) ==
    IF name \in DOMAIN ctx.global_property_map THEN ctx.global_property_map[name] ELSE "absent"

RECURSIVE Statement_parse(_, _)
RECURSIVE StatementList_parse(_, _)
RECURSIVE StatementList_loop(_, _)

(***************************************************************************)
(* BlockStatement and LabelledStatement (outside the two source files):    *)
(* the two statement kinds that come back to the recognisers below.        *)
(***************************************************************************)
StatementList_new(allow_yield, allow_await, allow_return, in_block, break_nodes) ==
    [allow_yield |-> allow_yield, allow_await |-> allow_await, allow_return |-> allow_return,
     in_block |-> in_block, break_nodes |-> break_nodes]

BLOCK_BREAK_TOKENS == {Punctuator("}")}

\* The block's node once its closing brace was expected.
BlockStatement_close(list, e) == IF IsOk(e) THEN Ok([type |-> "Block", items |-> list.val.items], e.c) ELSE e

BlockStatement_list(list) ==
    IF IsOk(list) THEN BlockStatement_close(list, expect(list.c, Punctuator("}"), "block")) ELSE list

BlockStatement_open(self, e) ==
    IF IsOk(e)
    THEN BlockStatement_list(StatementList_parse(
             StatementList_new(self.allow_yield, self.allow_await, self.allow_return, TRUE, BLOCK_BREAK_TOKENS), e.c))
    ELSE e

BlockStatement_parse(self, c0) == BlockStatement_open(self, expect(enter(c0, "BlockStatement"), Punctuator("{"), "block"))

\* The labelled statement's node once its body was parsed.
LabelledStatement_body(label, body) ==
    IF IsOk(body) THEN Ok([type |-> "Labelled", label |-> label, body |-> body.val], body.c) ELSE body

LabelledStatement_colon(self, label, e) ==
    IF IsOk(e) THEN LabelledStatement_body(label, Statement_parse(self, e.c)) ELSE e

LabelledStatement_label(self, label) ==
    IF IsOk(label) THEN LabelledStatement_colon(self, label.val, expect(label.c, Punctuator(":"), "Labelled Statement"))
    ELSE label

LabelledStatement_parse(self, c0) ==
    LabelledStatement_label(self,
        BindingIdentifier_parse(BindingIdentifier_new(self.allow_yield, self.allow_await), enter(c0, "LabelledStatement")))

(***************************************************************************)
(* Statement::parse.  self = [allow_yield, allow_await, allow_return].     *)
(***************************************************************************)
Statement_new(allow_yield, allow_await, allow_return) ==
    [allow_yield |-> allow_yield, allow_await |-> allow_await, allow_return |-> allow_return]

StatementKeywords == {"if", "while", "do", "for", "break", "continue", "try", "throw", "switch"}

\* The recogniser the arm of a statement keyword calls.
KeywordRecogniser(kw) ==
    IF kw = "if" THEN "IfStatement"
    ELSE IF kw = "while" THEN "WhileStatement"
    ELSE IF kw = "do" THEN "DoWhileStatement"
    ELSE IF kw = "for" THEN "ForStatement"
    ELSE IF kw = "break" THEN "BreakStatement"
    ELSE IF kw = "continue" THEN "ContinueStatement"
    ELSE IF kw = "try" THEN "TryStatement"
    ELSE IF kw = "throw" THEN "ThrowStatement"
    ELSE "SwitchStatement"

\* The Identifier arm; c is the cursor after set_goal(Div) and peek(1).
Statement_identifier(self, c) ==
    IF peek(c, 1) = Punctuator(":") THEN LabelledStatement_parse(self, c)
    ELSE ExpressionStatement_parse(self, c)

\* Statement_return for which `return` is allowed everywhere.
Statement_return_allowed(self, c) == ReturnStatement_parse(self, c)

\* The Return arm.
Statement_return(self, c) ==
    IF self.allow_return THEN ReturnStatement_parse(self, c)
    ELSE Err(Unexpected(peek(c, 0).sym, span_start(c, 0), "statement"), c)

\* Statement_parse that peeks past an identifier before it sets the goal.
Statement_parse_peek_first(self, c) ==
    IF peek(c, 0) = EOF THEN Err(AbruptEnd, c)
    ELSE IF peek(c, 0) = Keyword("await") THEN AwaitExpression_parse(self.allow_yield, c)
    ELSE IF peek(c, 0) = Keyword("var") THEN VariableStatement_parse(self, c)
    ELSE IF peek(c, 0) = Keyword("return") THEN Statement_return(self, c)
    ELSE IF peek(c, 0).kind = "Keyword" /\ peek(c, 0).sym \in StatementKeywords
        THEN KeywordStatement_parse(KeywordRecogniser(peek(c, 0).sym), self, c)
    ELSE IF peek(c, 0) = Punctuator("{") THEN BlockStatement_parse(self, c)
    ELSE IF peek(c, 0) = Punctuator(";") THEN Ok(Empty, advance(c))
    ELSE IF peek(c, 0).kind = "Identifier" THEN Statement_identifier(self, set_goal(lookahead(c, 1), "Div"))
    ELSE ExpressionStatement_parse(self, c)

Statement_parse(self, c) ==
    IF peek(c, 0) = EOF THEN Err(AbruptEnd, c)
    ELSE IF peek(c, 0) = Keyword("await") THEN AwaitExpression_parse(self.allow_yield, c)
    ELSE IF peek(c, 0) = Keyword("var") THEN VariableStatement_parse(self, c)
    ELSE IF peek(c, 0) = Keyword("return") THEN Statement_return(self, c)
    ELSE IF peek(c, 0).kind = "Keyword" /\ peek(c, 0).sym \in StatementKeywords
        THEN KeywordStatement_parse(KeywordRecogniser(peek(c, 0).sym), self, c)
    ELSE IF peek(c, 0) = Punctuator("{") THEN BlockStatement_parse(self, c)
    ELSE IF peek(c, 0) = Punctuator(";") THEN Ok(Empty, advance(c))
    ELSE IF peek(c, 0).kind = "Identifier" THEN Statement_identifier(self, lookahead(set_goal(c, "Div"), 1))
    ELSE ExpressionStatement_parse(self, c)

(***************************************************************************)
(* StatementListItem::parse.  self = [allow_yield, allow_await,            *)
(* allow_return, in_block].                                                *)
(***************************************************************************)
StatementListItem_new(allow_yield, allow_await, allow_return, in_block) ==
    [allow_yield |-> allow_yield, allow_await |-> allow_await, allow_return |-> allow_return, in_block |-> in_block]

\* StatementListItem_parse without the strict-mode check of function
\* declarations in blocks.
StatementListItem_parse_sloppy(self, c) ==
    IF peek(c, 0) = EOF THEN Err(AbruptEnd, c)
    ELSE IF peek(c, 0) \in {Keyword("function"), Keyword("async"), Keyword("class"), Keyword("const"), Keyword("let")}
        THEN Declaration_parse(self, c)
    ELSE Statement_parse(Statement_new(self.allow_yield, self.allow_await, self.allow_return), c)

StatementListItem_parse(self, c) ==
    IF peek(c, 0) = EOF THEN Err(AbruptEnd, c)
    ELSE IF peek(c, 0) \in {Keyword("function"), Keyword("async"), Keyword("class")}
        THEN IF c.strict_mode /\ self.in_block
             THEN Err(LexSyntax("Function declaration in blocks not allowed in strict mode", span_start(c, 0)), c)
             ELSE Declaration_parse(self, c)
    ELSE IF peek(c, 0) \in {Keyword("const"), Keyword("let")} THEN Declaration_parse(self, c)
    ELSE Statement_parse(Statement_new(self.allow_yield, self.allow_await, self.allow_return), c)

(***************************************************************************)
(* StatementList::parse.  self = [allow_yield, allow_await, allow_return,  *)
(* in_block, break_nodes].  The loop's locals are st = [c, items, done,    *)
(* err].                                                                   *)
(***************************************************************************)
RECURSIVE skip_semicolons(_)
\* `while cursor.next_if(Punctuator::Semicolon).is_some() {}`.
skip_semicolons(c) == IF peek(c, 0) = Punctuator(";") THEN skip_semicolons(advance(c)) ELSE c

\* `items.push(item)` and the semicolons after it; `?` on an error.
StatementList_push(st, item) ==
    IF IsOk(item) THEN [st EXCEPT !.items = Append(@, item.val), !.c = skip_semicolons(item.c)]
    ELSE Raise(st, item.err, item.c)

\* One iteration of the loop.
StatementList_iter(self, st) ==
    IF peek(st.c, 0) = EOF \/ peek(st.c, 0) \in self.break_nodes THEN [st EXCEPT !.done = TRUE]
    ELSE StatementList_push(st,
             StatementListItem_parse(StatementListItem_new(self.allow_yield, self.allow_await, self.allow_return, self.in_block), st.c))

StatementList_loop(self, st) ==
    IF st.done \/ st.err # NoError THEN st
    ELSE StatementList_loop(self, StatementList_iter(self, st))

StatementList_enter(c) == [c |-> c, items |-> <<>>, done |-> FALSE, err |-> NoError]

\* Ordering::Greater elements go behind v; sorted is sorted already.
insert_unstable(sorted, v) ==
    LET before == {i \in 1..Len(sorted) : hoistable_order(sorted[i], v) = "Less"}
    IN  SubSeq(sorted, 1, Cardinality(before)) \o <<v>> \o SubSeq(sorted, Cardinality(before) + 1, Len(sorted))

\* The place of v in a sorted list: behind every element that is not
\* Greater than it (sort_by is a stable sort).
insert_sorted(sorted, v) ==
    LET before == {i \in 1..Len(sorted) : hoistable_order(sorted[i], v) # "Greater"}
    IN  SubSeq(sorted, 1, Cardinality(before)) \o <<v>> \o SubSeq(sorted, Cardinality(before) + 1, Len(sorted))

RECURSIVE sort_by(_)
\* `items.sort_by(Node::hoistable_order)`.
sort_by(items) ==
    IF items = <<>> THEN <<>>
    ELSE insert_sorted(sort_by(SubSeq(items, 1, Len(items) - 1)), items[Len(items)])

\* node::StatementList: the items and the strict flag.
NodeStatementList(items, strict) == [items |-> items, strict |-> strict]

\* The value returned once the loop has ended.
StatementList_result(st) ==
    IF st.err # NoError THEN Err(st.err, st.c)
    ELSE Ok(NodeStatementList(sort_by(st.items), FALSE), st.c)

StatementList_parse(self, c) == StatementList_result(StatementList_loop(self, StatementList_enter(c)))

(***************************************************************************)
(* Parser::new, Script::parse, ScriptBody::parse and the validation of     *)
(* Parser::parse_all.                                                      *)
(***************************************************************************)
\* Parser::new: the cursor of a new parser.
Parser_new(strict_mode) == set_strict_mode(Cursor_new, strict_mode)

\* Whether Script finds the directive at the head of the input.
Script_strict(c) == peek(c, 0) = StringLiteral("use strict")

\* Script_directive without the switch to strict mode.
Script_directive_off(c) == c

\* Script_directive that consumes the directive's string literal.
Script_directive_consumed(c) == IF Script_strict(c) THEN advance(set_strict_mode(c, TRUE)) ELSE c

\* The cursor with which Script calls ScriptBody.
Script_directive(c) == IF Script_strict(c) THEN set_strict_mode(c, TRUE) ELSE c

\* The statement list ScriptBody parses with.
ScriptBody_list == StatementList_new(FALSE, FALSE, FALSE, FALSE, {})

ScriptBody_parse(c) == StatementList_parse(ScriptBody_list, c)

\* Script_result that takes the flag from the cursor's strict mode.
Script_result_of_cursor(strict, list) ==
    IF IsOk(list) THEN Ok(NodeStatementList(list.val.items, list.c.strict_mode), list.c) ELSE list

\* `statement_list.set_strict(strict)` on the list ScriptBody returned.
Script_result(strict, list) ==
    IF IsOk(list) THEN Ok(NodeStatementList(list.val.items, strict), list.c) ELSE list

Script_parse(c) ==
    IF peek(c, 0) = EOF THEN Ok(NodeStatementList(<<>>, FALSE), c)
    ELSE Script_result(Script_strict(c), ScriptBody_parse(Script_directive(c)))

\* map_insert that inserts nothing.
map_insert_skip(map, name, is_function_declaration) == map

\* `lexically_declared_names_map.insert(name, is_function_declaration)`.
map_insert(map, name, is_function_declaration) ==
    [n \in DOMAIN map \cup {name} |-> IF n = name THEN is_function_declaration ELSE map[n]]

\* is_duplicate for which two function declarations collide as well.
is_duplicate_any(map, name, is_function_declaration) == name \in DOMAIN map

\* The name is in the map already and the two occurrences are not both
\* function declarations.
is_duplicate(map, name, is_function_declaration) ==
    name \in DOMAIN map /\ ~(is_function_declaration /\ map[name])

\* non_configurable_binding_exists for which only Some(false) counts.
non_configurable_only_false(ctx, name) == configurable(ctx, name) = "Some(false)"

\* desc is Some and its configurable() is not Some(true).
non_configurable_binding_exists(ctx, name) ==
    IF configurable(ctx, name) = "absent" THEN FALSE ELSE configurable(ctx, name) # "Some(true)"

RECURSIVE Parser_check_lexical_bound_first(_, _, _, _, _)
\* Parser_check_lexical with the host's binding checked before the var names.
Parser_check_lexical_bound_first(L, i, map, V, ctx) ==
    IF i > Len(L) THEN NoError
    ELSE IF is_duplicate(map, L[i][1], L[i][2])
        THEN General("lexical name declared multiple times", Position(1, 1))
    ELSE IF has_binding(ctx, L[i][1])
        THEN General("lexical name declared multiple times", Position(1, 1))
    ELSE IF ~L[i][2] /\ L[i][1] \in V
        THEN General("lexical name declared in var names", Position(1, 1))
    ELSE IF ~L[i][2] /\ non_configurable_binding_exists(ctx, L[i][1])
        THEN General("lexical name declared in var names", Position(1, 1))
    ELSE Parser_check_lexical_bound_first(L, i + 1, map_insert(map, L[i][1], L[i][2]), V, ctx)

RECURSIVE Parser_check_lexical(_, _, _, _, _)
\* The loop over lexically_declared_names from its i-th entry on: the
\* error of the first check that fails, NoError if none does.
Parser_check_lexical(L, i, map, V, ctx) ==
    IF i > Len(L) THEN NoError
    ELSE IF is_duplicate(map, L[i][1], L[i][2])
        THEN General("lexical name declared multiple times", Position(1, 1))
    ELSE IF ~L[i][2] /\ L[i][1] \in V
        THEN General("lexical name declared in var names", Position(1, 1))
    ELSE IF has_binding(ctx, L[i][1])
        THEN General("lexical name declared multiple times", Position(1, 1))
    ELSE IF ~L[i][2] /\ non_configurable_binding_exists(ctx, L[i][1])
        THEN General("lexical name declared in var names", Position(1, 1))
    ELSE Parser_check_lexical(L, i + 1, map_insert(map, L[i][1], L[i][2]), V, ctx)

\* Parser_check_var without the check.
Parser_check_var_none(V, ctx) == NoError

\* The loop over var_declared_names.
Parser_check_var(V, ctx) ==
    IF \E name \in V : has_binding(ctx, name)
    THEN General("lexical name declared in var names", Position(1, 1))
    ELSE NoError

\* The validation, after the loop over lexically_declared_names.
Parser_validate_var(statement_list, lexical, V, ctx) ==
    IF lexical # NoError THEN Err(lexical, statement_list.c)
    ELSE IF Parser_check_var(V, ctx) # NoError THEN Err(Parser_check_var(V, ctx), statement_list.c)
    ELSE statement_list

\* parse_all after Script returned `statement_list`.
Parser_validate(statement_list, ctx) ==
    IF ~IsOk(statement_list) THEN statement_list
    ELSE Parser_validate_var(statement_list,
             Parser_check_lexical(lexically_declared_names(statement_list.val.items), 1, <<>>,
                                  var_declared_names(statement_list.val.items), ctx),
             var_declared_names(statement_list.val.items), ctx)

Parser_parse_all(c, ctx) == Parser_validate(Script_parse(c), ctx)

(***************************************************************************)
(* Inputs.  Token streams are drawn from bounded sets.                     *)
(***************************************************************************)
SeqsUpTo(S, n) == UNION {[1..k -> S] : k \in 0..n}

\* The longest run of tokens drawn from the small pattern alphabets.
MaxFlatLen == 6

\* The longest run of tokens drawn from the full pattern alphabet.
MaxRichLen == 3

ArrayFlatAlphabet == {Punctuator(","), Identifier("a"), Punctuator("]"), Punctuator("...")}

ObjectFlatAlphabet == {Punctuator(","), Identifier("a"), Punctuator("}"), Punctuator("...")}

RichAlphabet ==
    {Punctuator("["), Punctuator("]"), Punctuator("{"), Punctuator("}"), Punctuator(","),
     Punctuator("..."), Punctuator(":"), Punctuator("="), Identifier("a"), NumericLiteral("1")}

\* `[,a,,b]`, the example of elision counting.
ElisionExample ==
    <<Punctuator("["), Punctuator(","), Identifier("a"), Punctuator(","), Punctuator(","), Identifier("b"), Punctuator("]")>>

\* `[...[]a]` and `[...{},]`: a nested rest pattern that is not closed.
RestExamples ==
    {<<Punctuator("["), Punctuator("..."), Punctuator("["), Punctuator("]"), Identifier("a"), Punctuator("]")>>,
     <<Punctuator("["), Punctuator("..."), Punctuator("{"), Punctuator("}"), Punctuator(","), Punctuator("]")>>}

ArrayPatternInputs ==
    {<<Punctuator("[")>> \o s : s \in SeqsUpTo(ArrayFlatAlphabet, MaxFlatLen) \cup SeqsUpTo(RichAlphabet, MaxRichLen)}
        \cup {ElisionExample} \cup RestExamples

\* `{ a, b: c = 1, ...rest }`, the example of a rest property with
\* excluded keys.
ExcludedKeysExample ==
    <<Punctuator("{"), Identifier("a"), Punctuator(","), Identifier("b"), Punctuator(":"), Identifier("c"),
      Punctuator("="), NumericLiteral("1"), Punctuator(","), Punctuator("..."), Identifier("rest"), Punctuator("}")>>

\* `{ [1]: a, b, ...r }`: a computed property name before the rest.
ComputedExample ==
    <<Punctuator("{"), Punctuator("["), NumericLiteral("1"), Punctuator("]"), Punctuator(":"), Identifier("a"),
      Punctuator(","), Identifier("b"), Punctuator(","), Punctuator("..."), Identifier("r"), Punctuator("}")>>

\* `{ a: { b, ...q }, ...r }`: a nested pattern with its own rest before
\* the rest.
NestedExample ==
    <<Punctuator("{"), Identifier("a"), Punctuator(":"), Punctuator("{"), Identifier("b"), Punctuator(","),
      Punctuator("..."), Identifier("q"), Punctuator("}"), Punctuator(","), Punctuator("..."), Identifier("r"),
      Punctuator("}")>>

\* `{ a, a, ...r }`: a repeated property before the rest.
RepeatedExample ==
    <<Punctuator("{"), Identifier("a"), Punctuator(","), Identifier("a"), Punctuator(","),
      Punctuator("..."), Identifier("r"), Punctuator("}")>>

ObjectExamples == {ExcludedKeysExample, ComputedExample, NestedExample, RepeatedExample}

ObjectPatternInputs ==
    {<<Punctuator("{")>> \o s : s \in SeqsUpTo(ObjectFlatAlphabet, MaxFlatLen - 1) \cup SeqsUpTo(RichAlphabet, MaxRichLen)}
        \cup ObjectExamples

\* The host context that binds nothing.
NoContext == [bindings |-> {}, global_property_map |-> [n \in {"x", "y", "f"} |-> "absent"]]

NoFrame == [c |-> Cursor_new, done |-> FALSE, err |-> NoError]

NoResult == [err |-> NoError, val |-> <<>>, c |-> Cursor_new, returned |-> FALSE]

Returned(r) == [err |-> r.err, val |-> r.val, c |-> r.c, returned |-> TRUE]

(***************************************************************************)
(* SpecPattern: a binding-pattern recogniser is entered at its opening     *)
(* token (as the declaration and parameter parsers enter it) and runs one  *)
(* iteration of its loop per step.                                         *)
(***************************************************************************)
InitPattern ==
    /\ config \in [entry : {"ArrayBindingPattern", "ObjectBindingPattern"},
                   allow_in : {TRUE}, allow_yield : {FALSE}, allow_await : {FALSE},
                   allow_return : {FALSE}, in_block : {FALSE}, break_nodes : {{}}]
    /\ tokens \in (IF config.entry = "ArrayBindingPattern" THEN ArrayPatternInputs ELSE ObjectPatternInputs)
    /\ cursor = Cursor_new
    /\ context = NoContext
    /\ pc = "start"
    /\ frame = NoFrame
    /\ result = NoResult

\* The recogniser is entered: the opening token is expected.
PatternEnter ==
    /\ pc = "start"
    /\ LET open == IF config.entry = "ArrayBindingPattern" THEN Punctuator("[") ELSE Punctuator("{")
           ctx == IF config.entry = "ArrayBindingPattern" THEN "array binding pattern" ELSE "object binding pattern"
           e == expect(cursor, open, ctx)
       IN  IF IsOk(e)
           THEN /\ frame' = IF config.entry = "ArrayBindingPattern" THEN ArrayBindingPattern_enter(e.c) ELSE ObjectBindingPattern_enter(e.c)
                /\ cursor' = e.c
                /\ pc' = "loop"
                /\ result' = result
           ELSE /\ result' = Returned(e)
                /\ pc' = "done"
                /\ UNCHANGED <<frame, cursor>>
    /\ UNCHANGED <<tokens, config, context>>

\* One iteration of ArrayBindingPattern's loop; the iteration that leaves
\* the loop returns.
ArrayPatternStep ==
    /\ pc = "loop"
    /\ config.entry = "ArrayBindingPattern"
    /\ frame' = ArrayBindingPattern_iter(config, frame)
    /\ cursor' = frame'.c
    /\ IF frame'.done \/ frame'.err # NoError
       THEN pc' = "done" /\ result' = Returned(ArrayBindingPattern_result(frame'))
       ELSE pc' = "loop" /\ result' = result
    /\ UNCHANGED <<tokens, config, context>>

\* One iteration of ObjectBindingPattern's loop.
ObjectPatternStep ==
    /\ pc = "loop"
    /\ config.entry = "ObjectBindingPattern"
    /\ frame' = ObjectBindingPattern_iter(config, frame)
    /\ cursor' = frame'.c
    /\ IF frame'.done \/ frame'.err # NoError
       THEN pc' = "done" /\ result' = Returned(ObjectBindingPattern_result(frame'))
       ELSE pc' = "loop" /\ result' = result
    /\ UNCHANGED <<tokens, config, context>>

NextPattern == PatternEnter \/ ArrayPatternStep \/ ObjectPatternStep

SpecPattern == InitPattern /\ [][NextPattern]_vars

(***************************************************************************)
(* Scripts and host contexts.  A script is a run of phrases.               *)
(***************************************************************************)
RECURSIVE Flatten(_)
Flatten(phrases) == IF phrases = <<>> THEN <<>> ELSE Head(phrases) \o Flatten(Tail(phrases))

Let(n) == <<Keyword("let"), Identifier(n), Punctuator(";")>>

Var(tok) == <<Keyword("var"), tok, Punctuator(";")>>

Function(n) == <<Keyword("function"), Identifier(n), Punctuator("("), Punctuator(")"), Punctuator("{"), Punctuator("}")>>

BlockVar(n) == <<Punctuator("{")>> \o Var(Identifier(n)) \o <<Punctuator("}")>>

Directive == <<StringLiteral("use strict"), Punctuator(";")>>

\* The tokens a BindingIdentifier rejects in strict mode.
StrictOnly == {Identifier("arguments"), Identifier("eval"), Keyword("let"), Keyword("yield"), Keyword("await")}

\* The longest script of declarations, in phrases.
MaxDecls == 3

\* The longest script of any phrases.
MaxItems == 2

DeclPhrases == {Let("x"), Let("y"), Let("f"), Var(Identifier("x")), Var(Identifier("f")), Function("f"), BlockVar("x")}

ItemPhrases ==
    {Directive, <<Identifier("a"), Punctuator(";")>>, <<Identifier("b"), Punctuator(";")>>,
     <<Keyword("return"), Punctuator(";")>>, Let("x"), Function("f"), Function("g"),
     <<Keyword("var"), Punctuator("["), Identifier("eval"), Punctuator("]"), Punctuator(";")>>}
        \cup {Var(tok) : tok \in StrictOnly}

\* `a; function f(){} b; function g(){}`, an example of the hoisting.
HoistExample == <<Identifier("a"), Punctuator(";")>> \o Function("f") \o <<Identifier("b"), Punctuator(";")>> \o Function("g")

DeclScripts == {Flatten(s) : s \in SeqsUpTo(DeclPhrases, MaxDecls)}

ItemScripts == {Flatten(s) : s \in SeqsUpTo(ItemPhrases, MaxItems)} \cup {HoistExample}

Names == {"x", "y", "f"}

Context(bindings, properties) ==
    [bindings |-> bindings,
     global_property_map |-> [n \in Names |-> IF n \in DOMAIN properties THEN properties[n] ELSE "absent"]]

\* The host contexts: the names bound and the properties of the global object.
Contexts ==
    {NoContext,
     Context({"x"}, <<>>), Context({"y"}, <<>>), Context({"f"}, <<>>),
     Context({}, [n \in {"x"} |-> "Some(true)"]),
     Context({}, [n \in {"x"} |-> "Some(false)"]),
     Context({}, [n \in {"x"} |-> "None"]),
     Context({}, [n \in {"f"} |-> "Some(false)"]),
     Context({"y"}, [n \in {"x"} |-> "Some(false)"]),
     Context({"x"}, [n \in {"x"} |-> "None"])}

\* The calls of Parser::new and parse_all that are run.
ScriptCases ==
    [tokens : DeclScripts, context : Contexts, strict_mode : {FALSE}]
        \cup [tokens : ItemScripts, context : {NoContext}, strict_mode : BOOLEAN]

(***************************************************************************)
(* Spec: Parser::new(reader, strict_mode) and then parse_all(context).     *)
(* Script's call of ScriptBody runs one iteration of the statement list's  *)
(* loop per step; the validation is one step.                              *)
(***************************************************************************)
Init ==
    /\ \E case \in ScriptCases :
          /\ tokens = case.tokens
          /\ context = case.context
          /\ config = [entry |-> "Parser", strict_mode |-> case.strict_mode]
    /\ cursor = Cursor_new
    /\ pc = "start"
    /\ frame = NoFrame
    /\ result = NoResult

\* Parser::new.
ParserNew ==
    /\ pc = "start"
    /\ cursor' = Parser_new(config.strict_mode)
    /\ pc' = "script"
    /\ UNCHANGED <<tokens, config, context, frame, result>>

\* Script::parse up to the call of ScriptBody: the directive is looked for.
\* On the empty input Script returns the empty list.
ScriptEnter ==
    /\ pc = "script"
    /\ IF peek(cursor, 0) = EOF
       THEN /\ result' = Script_parse(cursor) @@ [returned |-> FALSE]
            /\ pc' = "validate"
            /\ UNCHANGED <<cursor, frame>>
       ELSE /\ cursor' = Script_directive(cursor)
            /\ frame' = StatementList_enter(cursor') @@ [strict |-> Script_strict(cursor)]
            /\ pc' = "items"
            /\ result' = result
    /\ UNCHANGED <<tokens, config, context>>

\* One iteration of the loop of the statement list of ScriptBody.  An error
\* is returned by parse_all; the iteration that leaves the loop sorts the
\* items and Script sets the strict flag of the list.
ScriptBodyStep ==
    /\ pc = "items"
    /\ frame' = StatementList_iter(ScriptBody_list, frame)
    /\ cursor' = frame'.c
    /\ IF frame'.err # NoError
       THEN pc' = "done" /\ result' = Returned(StatementList_result(frame'))
       ELSE IF frame'.done
            THEN pc' = "validate" /\ result' = Script_result(frame.strict, StatementList_result(frame')) @@ [returned |-> FALSE]
            ELSE pc' = "items" /\ result' = result
    /\ UNCHANGED <<tokens, config, context>>

\* The validation of parse_all and its return.
Validate ==
    /\ pc = "validate"
    /\ result' = Returned(Parser_validate(result, context))
    /\ pc' = "done"
    /\ UNCHANGED <<tokens, cursor, config, context, frame>>

Next == ParserNew \/ ScriptEnter \/ ScriptBodyStep \/ Validate

Spec == Init /\ [][Next]_vars

(***************************************************************************)
(* SpecStatement: one of the statement recognisers is entered with its     *)
(* grammar flags on a cursor whose strict flag the caller has set.         *)
(* Statement and StatementListItem return in one step; StatementList and   *)
(* ScriptBody run one iteration of the loop per step.                      *)
(***************************************************************************)
\* The longest run of tokens drawn from the statement alphabet.
MaxStmtLen == 3

StatementAlphabet ==
    {Keyword("return"), Keyword("await"), Identifier("a"), Punctuator(":"), Punctuator(";"),
     Punctuator("{"), Punctuator("}")}

\* `{ return ; }`, `a : await a ;`, `await : a ;`, `function f(){}`,
\* `{ function f(){} }`, `async function f`, `class a {}`, `const a ;` and
\* `let a ;`.
StatementExamples ==
    {<<Punctuator("{"), Keyword("return"), Punctuator(";"), Punctuator("}")>>,
     <<Identifier("a"), Punctuator(":"), Keyword("await"), Identifier("a"), Punctuator(";")>>,
     <<Keyword("await"), Punctuator(":"), Identifier("a"), Punctuator(";")>>,
     Function("f"),
     <<Punctuator("{")>> \o Function("f") \o <<Punctuator("}")>>,
     <<Keyword("async"), Keyword("function"), Identifier("f")>>,
     <<Keyword("class"), Identifier("a"), Punctuator("{"), Punctuator("}")>>,
     <<Keyword("const"), Identifier("a"), Punctuator(";")>>,
     Let("a")}

StatementInputs == SeqsUpTo(StatementAlphabet, MaxStmtLen) \cup StatementExamples

\* The recognisers entered and their configurations.
StatementConfigs ==
    [entry : {"Statement"}, allow_yield : {FALSE}, allow_await : BOOLEAN, allow_return : BOOLEAN,
     in_block : {FALSE}, break_nodes : {{}}, strict_mode : {FALSE}]
    \cup [entry : {"StatementListItem"}, allow_yield : {FALSE}, allow_await : {FALSE}, allow_return : BOOLEAN,
          in_block : BOOLEAN, break_nodes : {{}}, strict_mode : BOOLEAN]
    \cup [entry : {"StatementList"}, allow_yield : {FALSE}, allow_await : {FALSE}, allow_return : BOOLEAN,
          in_block : BOOLEAN, break_nodes : {BLOCK_BREAK_TOKENS}, strict_mode : BOOLEAN]
    \cup [entry : {"ScriptBody"}, allow_yield : {FALSE}, allow_await : {FALSE}, allow_return : {FALSE},
          in_block : {FALSE}, break_nodes : {{}}, strict_mode : {FALSE}]

InitStatement ==
    /\ config \in StatementConfigs
    /\ tokens \in StatementInputs
    /\ cursor = set_strict_mode(Cursor_new, config.strict_mode)
    /\ context = NoContext
    /\ pc = "start"
    /\ frame = NoFrame
    /\ result = NoResult

\* Statement::new(...).parse(cursor).
StatementParse ==
    /\ pc = "start"
    /\ config.entry = "Statement"
    /\ result' = Returned(Statement_parse(Statement_new(config.allow_yield, config.allow_await, config.allow_return), cursor))
    /\ cursor' = result'.c
    /\ pc' = "done"
    /\ UNCHANGED <<tokens, config, context, frame>>

\* StatementListItem::new(...).parse(cursor).
StatementListItemParse ==
    /\ pc = "start"
    /\ config.entry = "StatementListItem"
    /\ result' = Returned(StatementListItem_parse(
                     StatementListItem_new(config.allow_yield, config.allow_await, config.allow_return, config.in_block), cursor))
    /\ cursor' = result'.c
    /\ pc' = "done"
    /\ UNCHANGED <<tokens, config, context, frame>>

\* The statement list the entered recogniser parses with.
ListSelf ==
    IF config.entry = "ScriptBody" THEN ScriptBody_list
    ELSE StatementList_new(config.allow_yield, config.allow_await, config.allow_return, config.in_block, config.break_nodes)

\* StatementList::parse is entered: `items` is empty.
StatementListEnter ==
    /\ pc = "start"
    /\ config.entry \in {"StatementList", "ScriptBody"}
    /\ frame' = StatementList_enter(cursor)
    /\ pc' = "loop"
    /\ UNCHANGED <<tokens, cursor, config, context, result>>

\* One iteration of the loop; the iteration that leaves the loop sorts the
\* items and returns.
StatementListStep ==
    /\ pc = "loop"
    /\ config.entry \in {"StatementList", "ScriptBody"}
    /\ frame' = StatementList_iter(ListSelf, frame)
    /\ cursor' = frame'.c
    /\ IF frame'.done \/ frame'.err # NoError
       THEN pc' = "done" /\ result' = Returned(StatementList_result(frame'))
       ELSE pc' = "loop" /\ result' = result
    /\ UNCHANGED <<tokens, config, context>>

NextStatement == StatementParse \/ StatementListItemParse \/ StatementListEnter \/ StatementListStep

SpecStatement == InitStatement /\ [][NextStatement]_vars

(***************************************************************************)
(* SpecBinding: BindingIdentifier is entered with its grammar flags on a   *)
(* cursor whose strict and arrow flags the caller has set.  It returns in  *)
(* one step.                                                               *)
(***************************************************************************)
\* The longest run of tokens handed to BindingIdentifier.
MaxBindLen == 2

BindingAlphabet ==
    {Identifier("a"), Identifier("arguments"), Identifier("eval"), Keyword("let"), Keyword("yield"),
     Keyword("await"), Keyword("var"), Punctuator(";"), NumericLiteral("1")}

BindingInputs == SeqsUpTo(BindingAlphabet, MaxBindLen)

BindingConfigs ==
    [entry : {"BindingIdentifier"}, allow_yield : BOOLEAN, allow_await : BOOLEAN,
     strict_mode : BOOLEAN, arrow : BOOLEAN]

InitBinding ==
    /\ config \in BindingConfigs
    /\ tokens \in BindingInputs
    /\ cursor = set_arrow(set_strict_mode(Cursor_new, config.strict_mode), config.arrow)
    /\ context = NoContext
    /\ pc = "start"
    /\ frame = NoFrame
    /\ result = NoResult

\* BindingIdentifier::new(allow_yield, allow_await).parse(cursor).
BindingIdentifierParse ==
    /\ pc = "start"
    /\ config.entry = "BindingIdentifier"
    /\ result' = Returned(BindingIdentifier_parse(BindingIdentifier_new(config.allow_yield, config.allow_await), cursor))
    /\ cursor' = result'.c
    /\ pc' = "done"
    /\ UNCHANGED <<tokens, config, context, frame>>

NextBinding == BindingIdentifierParse

SpecBinding == InitBinding /\ [][NextBinding]_vars

(***************************************************************************)
(* SpecLoops: the recognisers of SpecPattern and of SpecStatement, each    *)
(* run to its return.                                                      *)
(***************************************************************************)
PatternEntries == {"ArrayBindingPattern", "ObjectBindingPattern"}

InitLoops == InitPattern \/ InitStatement

NextLoops ==
    \/ config.entry \in PatternEntries /\ NextPattern
    \/ config.entry \notin PatternEntries /\ NextStatement

SpecLoops == InitLoops /\ [][NextLoops]_vars

(***************************************************************************)
(* Properties of the binding-pattern recognisers (under SpecPattern).      *)
(***************************************************************************)
IsOpen(tok) == tok = Punctuator("[") \/ tok = Punctuator("{")

IsClose(tok) == tok = Punctuator("]") \/ tok = Punctuator("}")

\* The nesting depth of the i-th token: 1 directly inside the entered pattern.
Depth(i) == Cardinality({j \in 1..(i - 1) : IsOpen(tokens[j])}) - Cardinality({j \in 1..(i - 1) : IsClose(tokens[j])})

\* Among the first n tokens, the commas of the entered pattern that do not
\* directly follow a binding element: those after the opening bracket or
\* after another comma.
ElidingCommas(n) ==
    {i \in 2..n : /\ tokens[i] = Punctuator(",")
                  /\ Depth(i) = 1
                  /\ tokens[i - 1] = Punctuator(",") \/ i = 2}

NumElisions(patterns) == Cardinality({i \in 1..Len(patterns) : patterns[i] = Elision})

\* The input is `[`, k commas and `]`.
OnlyCommas ==
    /\ Len(tokens) >= 2
    /\ tokens[1] = Punctuator("[")
    /\ tokens[Len(tokens)] = Punctuator("]")
    /\ \A i \in 2..(Len(tokens) - 1) : tokens[i] = Punctuator(",")

\* C7: in ArrayBindingPattern the Elisions emitted are exactly the commas
\* that are not the first comma directly after a binding element: after
\* every iteration of the loop the list holds one Elision per such comma
\* consumed; `[` k commas `]` returns exactly k Elisions and nothing else;
\* `[,a,,b]` returns Elision, SingleName(a), Elision, SingleName(b).
C7_ElisionCounting ==
    (config.entry = "ArrayBindingPattern" /\ pc \in {"loop", "done"} /\ frame.err = NoError) =>
        /\ NumElisions(frame.patterns) = Cardinality(ElidingCommas(frame.c.pos))
        /\ (pc = "done" /\ OnlyCommas) => result.val = [i \in 1..(Len(tokens) - 2) |-> Elision]
        /\ (pc = "done" /\ tokens = ElisionExample) =>
               result.val = <<Elision, [type |-> "SingleName", ident |-> "a", default_init |-> NoneOpt],
                              Elision, [type |-> "SingleName", ident |-> "b", default_init |-> NoneOpt]>>

C7_Witness ==
    /\ pc = "done"
    /\ tokens = ElisionExample
    /\ IsOk(result)
    /\ NumElisions(result.val) = 2
    /\ Len(result.val) = 4

RECURSIVE RestIsLast(_)
\* At most one rest descriptor, in the last place, in `patterns` and in
\* every pattern nested in it.
RestIsLast(patterns) ==
    \A i \in 1..Len(patterns) :
        /\ patterns[i].type \in RestTypes => i = Len(patterns)
        /\ patterns[i].type \in {"BindingPattern", "BindingPatternRest"} => RestIsLast(patterns[i].pattern.bindings)

Closer == IF config.entry = "ArrayBindingPattern" THEN Punctuator("]") ELSE Punctuator("}")

\* The loop stands at a `...` whose rest element is the identifier after
\* it, and a token other than the closing one follows the rest element.
RestNotClosed ==
    /\ pc = "loop"
    /\ peek(frame.c, 0) = Punctuator("...")
    /\ peek(frame.c, 1).kind = "Identifier"
    /\ peek(frame.c, 2) # EOF
    /\ peek(frame.c, 2) # Closer

\* The same for a nested pattern `[]` or `{}` as the rest element of an
\* array pattern.
RestPatternNotClosed ==
    /\ pc = "loop"
    /\ config.entry = "ArrayBindingPattern"
    /\ peek(frame.c, 0) = Punctuator("...")
    /\ \/ peek(frame.c, 1) = Punctuator("[") /\ peek(frame.c, 2) = Punctuator("]")
       \/ peek(frame.c, 1) = Punctuator("{") /\ peek(frame.c, 2) = Punctuator("}")
    /\ frame.c.pos + 4 <= Len(tokens)
    /\ tokens[frame.c.pos + 4] # Punctuator("]")

\* C8: a list returned by ArrayBindingPattern or ObjectBindingPattern holds
\* at most one rest descriptor and it is the last element; when a rest
\* element is followed by a token other than the closing bracket or brace
\* the recogniser returns an Expected error and no pattern.
C8_RestLast ==
    /\ [](pc = "done" /\ IsOk(result) => RestIsLast(result.val))
    /\ [][RestNotClosed \/ RestPatternNotClosed =>
            pc' = "done" /\ result'.err.kind = "Expected" /\ result'.val = <<>>]_vars

C8_Witness ==
    /\ pc = "done"
    /\ IsOk(result)
    /\ Len(result.val) >= 2
    /\ result.val[Len(result.val)].type \in RestTypes
    /\ tokens[Len(tokens)] = Closer

(***************************************************************************)
(* Properties of Script and of the validation of parse_all (under Spec).   *)
(***************************************************************************)
\* Script returned a statement list (parse_all has come to its validation).
ScriptParsed == pc \in {"validate", "done"} /\ (tokens = <<>> \/ (frame.done /\ frame.err = NoError))

\* parse_all has returned a statement list / an error of the validation.
Accepted == pc = "done" /\ ScriptParsed /\ IsOk(result)

Rejected == pc = "done" /\ ScriptParsed /\ ~IsOk(result)

\* The items in the order they were parsed.
ParsedItems == IF tokens = <<>> THEN <<>> ELSE frame.items

\* L and V of the statement list Script returned.
L == lexically_declared_names(sort_by(ParsedItems))

V == var_declared_names(sort_by(ParsedItems))

HasDirective == Len(tokens) >= 1 /\ tokens[1] = StringLiteral("use strict")

\* The loop of the statement list stands at `var` followed by a binding
\* identifier that strict mode forbids, alone or as the first element of an
\* array pattern.
AtStrictOnlyBinding ==
    /\ pc = "items"
    /\ peek(frame.c, 0) = Keyword("var")
    /\ \/ peek(frame.c, 1) \in StrictOnly
       \/ peek(frame.c, 1) = Punctuator("[") /\ peek(frame.c, 2) \in StrictOnly

\* C1: when the first token is the string literal `use strict`, the cursor
\* is in strict mode in every state of the statement list's loop (so before
\* the first item is parsed), the list Script returns has strict = TRUE, and
\* an item that binds `arguments`, `eval`, `let`, `yield` or `await` is
\* rejected with the BindingIdentifier's error at that token.
C1_StrictDirective ==
    /\ [](HasDirective /\ pc = "items" => cursor.strict_mode /\ frame.c.strict_mode)
    /\ [](HasDirective /\ ScriptParsed /\ IsOk(result) => result.val.strict = TRUE)
    /\ [][HasDirective /\ AtStrictOnlyBinding =>
            /\ pc' = "done"
            /\ result'.err.kind \in {"Lex", "General"}
            /\ result'.err.position = span_start(frame.c, IF peek(frame.c, 1) \in StrictOnly THEN 1 ELSE 2)]_vars

C1_Witness ==
    /\ pc = "done"
    /\ tokens = Directive \o Var(Identifier("eval"))
    /\ cursor.strict_mode
    /\ result.err = LexSyntax("unexpected identifier 'eval' in strict mode", Position(1, 4))

NotHoistable(node) == ~IsHoistable(node)

\* C2: the list the statement-list driver returns is the stable partition
\* of the items in parse order: its hoistable items are the parsed
\* hoistable items in their order, its other items the other parsed items
\* in their order, and no hoistable item stands behind another item.
C2_StablePartition ==
    (pc = "validate" /\ tokens # <<>>) =>
        /\ Len(result.val.items) = Len(frame.items)
        /\ SelectSeq(result.val.items, IsHoistable) = SelectSeq(frame.items, IsHoistable)
        /\ SelectSeq(result.val.items, NotHoistable) = SelectSeq(frame.items, NotHoistable)
        /\ \A i, j \in 1..Len(result.val.items) : (i < j /\ IsHoistable(result.val.items[j])) => IsHoistable(result.val.items[i])

C2_Witness ==
    /\ pc = "validate"
    /\ tokens = HoistExample
    /\ [i \in 1..4 |-> frame.items[i].type] = <<"Expression", "FunctionDecl", "Expression", "FunctionDecl">>
    /\ result.val.items = <<frame.items[2], frame.items[4], frame.items[1], frame.items[3]>>

\* A name occurs twice among the non-function entries of L.
NonFunctionRepeated == \E i, j \in 1..Len(L) : i < j /\ L[i][1] = L[j][1] /\ ~L[i][2] /\ ~L[j][2]

\* A name occurs in L as a function and as a non-function entry.
FunctionAndNonFunction == \E i, j \in 1..Len(L) : L[i][1] = L[j][1] /\ L[i][2] /\ ~L[j][2]

\* A non-function name of L is in V.
LexicalInVar == \E i \in 1..Len(L) : ~L[i][2] /\ L[i][1] \in V

\* C3: a script parse_all accepts has no name twice among the non-function
\* entries of L, no name in L both as a function and as a non-function
\* entry, and no non-function name of L in V; a script with one of these is
\* rejected with a General error; with a host context that has no binding
\* and no global property, `let x; let x;` is rejected with "lexical name
\* declared multiple times" and `let x; var x;` with "lexical name declared
\* in var names".
C3_NoDuplicateLexical ==
    /\ Accepted => ~NonFunctionRepeated /\ ~FunctionAndNonFunction /\ ~LexicalInVar
    /\ (pc = "done" /\ ScriptParsed /\ (NonFunctionRepeated \/ FunctionAndNonFunction \/ LexicalInVar)) =>
           result.err.kind = "General" /\ result.val = <<>>
    /\ (pc = "done" /\ context = NoContext /\ tokens = Let("x") \o Let("x")) =>
           result.err = General("lexical name declared multiple times", Position(1, 1))
    /\ (pc = "done" /\ context = NoContext /\ tokens = Let("x") \o Var(Identifier("x"))) =>
           result.err = General("lexical name declared in var names", Position(1, 1))

C3_Witness ==
    /\ Rejected
    /\ context = NoContext
    /\ tokens = Let("x") \o Let("x")
    /\ result.err.message = "lexical name declared multiple times"

\* The names the script declares.
DeclaredNames == {L[i][1] : i \in 1..Len(L)} \cup V

\* C4: a script whose lexically declared names are all declared by function
\* declarations, none of its declared names being bound by the host, is
\* accepted, however often a function is declared and whether or not its
\* name is in V; two entries of L with one name that are not both function
\* declarations, in whichever order, cause rejection.
C4_FunctionsExempt ==
    /\ (pc = "done" /\ ScriptParsed /\ (\A i \in 1..Len(L) : L[i][2]) /\ (\A n \in DeclaredNames : ~has_binding(context, n))) =>
           IsOk(result) /\ result.val.items = sort_by(ParsedItems)
    /\ (pc = "done" /\ ScriptParsed /\ (\E i, j \in 1..Len(L) : i # j /\ L[i][1] = L[j][1] /\ ~(L[i][2] /\ L[j][2]))) =>
           ~IsOk(result)

C4_Witness ==
    /\ Accepted
    /\ \E i, j \in 1..Len(L) : i < j /\ L[i] = <<"f", TRUE>> /\ L[j] = <<"f", TRUE>>
    /\ "f" \in V

\* An entry of L is bound by the host.
LexicalBound == \E i \in 1..Len(L) : has_binding(context, L[i][1])

\* A name of V is bound by the host.
VarBound == \E n \in V : has_binding(context, n)

\* The global object has a property, not configurable, named as a
\* non-function entry of L.
LexicalNonConfigurable == \E i \in 1..Len(L) : ~L[i][2] /\ configurable(context, L[i][1]) \in {"Some(false)", "None"}

\* Two entries of L with one name that are not both function declarations.
DuplicateLexical == NonFunctionRepeated \/ FunctionAndNonFunction

MultipleTimes == General("lexical name declared multiple times", Position(1, 1))

InVarNames == General("lexical name declared in var names", Position(1, 1))

\* C5 as it is stated: whenever an entry of L is bound by the host the
\* result is General("lexical name declared multiple times"), and whenever
\* a name of V is bound by the host it is General("lexical name declared in
\* var names").
C5_AsStated ==
    (pc = "done" /\ ScriptParsed) =>
        /\ LexicalBound => result.err = MultipleTimes
        /\ VarBound => result.err = InVarNames

\* C5: a script that declares, in L or in V, a name the host binds is never
\* accepted: parse_all returns a General error at (1,1).  Its message is
\* "lexical name declared multiple times" when an entry of L is bound and
\* no other check of the loop over L fails (no duplicate entry, no
\* non-function name in V or with a non-configurable property); it is
\* "lexical name declared in var names" when a name of V is bound and no
\* check of the loop over L fails.  The context is never changed.
C5_HostBinding ==
    /\ []((pc = "done" /\ ScriptParsed /\ (LexicalBound \/ VarBound)) =>
              /\ result.err \in {MultipleTimes, InVarNames}
              /\ result.val = <<>>
              /\ (LexicalBound /\ ~DuplicateLexical /\ ~LexicalInVar /\ ~LexicalNonConfigurable) => result.err = MultipleTimes
              /\ (~LexicalBound /\ ~DuplicateLexical /\ ~LexicalInVar /\ ~LexicalNonConfigurable) => result.err = InVarNames)
    /\ [][context' = context]_vars

C5_Witness ==
    /\ Rejected
    /\ tokens = Function("f") \o Var(Identifier("x"))
    /\ context.bindings = {"x"}
    /\ result.err = InVarNames

\* C6 as it is stated: whenever the global object has a property named as
\* a non-function entry of L whose configurable() is not Some(true), the
\* result is General("lexical name declared in var names").
C6_AsStated ==
    (pc = "done" /\ ScriptParsed /\ LexicalNonConfigurable) => result.err = InVarNames

\* C6: a script with a non-function lexical name for which the global
\* object has a property whose configurable() is Some(false) or None is
\* rejected with a General error at (1,1), and the message is "lexical name
\* declared in var names" unless L has a duplicate or an entry bound by the
\* host; properties with configurable() = Some(true), and properties named
\* as function declarations, reject nothing: a script without such a name,
\* without duplicate, collision with V or name bound by the host is
\* accepted.
C6_NonConfigurable ==
    /\ (pc = "done" /\ ScriptParsed /\ LexicalNonConfigurable) =>
           /\ result.err \in {MultipleTimes, InVarNames}
           /\ result.val = <<>>
           /\ (~DuplicateLexical /\ ~LexicalBound) => result.err = InVarNames
    /\ (pc = "done" /\ ScriptParsed /\ ~LexicalNonConfigurable /\ ~DuplicateLexical /\ ~LexicalInVar /\ ~LexicalBound /\ ~VarBound) =>
           IsOk(result)

C6_Witness ==
    /\ Rejected
    /\ tokens = Let("x")
    /\ ~has_binding(context, "x")
    /\ configurable(context, "x") = "None"
    /\ result.err = InVarNames

(***************************************************************************)
(* Properties of the statement dispatcher (under SpecStatement).           *)
(***************************************************************************)
Range(s) == {s[i] : i \in DOMAIN s}

\* The recogniser entered was handed an input whose first token is `tok`.
EnteredAt(entry, tok) == config.entry = entry /\ tokens # <<>> /\ tokens[1] = tok

RECURSIVE HasReturn(_)
\* A return statement is among the items or nested in one of them.
HasReturn(items) ==
    \E i \in 1..Len(items) :
        \/ items[i].type = "Return"
        \/ items[i].type = "Block" /\ HasReturn(items[i].items)
        \/ items[i].type = "Labelled" /\ HasReturn(<<items[i].body>>)

\* C9: Statement with allow_return = FALSE at the keyword `return` returns
\* the error Unexpected(`return`, context "statement"), has consumed no
\* token and has not entered ReturnStatement; ScriptBody never enters
\* ReturnStatement, returns no list with a return statement in it, and
\* rejects an input that starts with `return` with that error.
C9_ReturnNotAllowed ==
    /\ (pc = "done" /\ EnteredAt("Statement", Keyword("return")) /\ ~config.allow_return) =>
           /\ result.err = Unexpected("return", Position(1, 1), "statement")
           /\ result.val = <<>>
           /\ cursor.pos = 0
           /\ "ReturnStatement" \notin Range(cursor.log)
    /\ config.entry = "ScriptBody" =>
           /\ "ReturnStatement" \notin Range(cursor.log)
           /\ (pc = "done" /\ IsOk(result)) => ~HasReturn(result.val.items)
           /\ (pc = "done" /\ tokens # <<>> /\ tokens[1] = Keyword("return")) =>
                  result.err = Unexpected("return", Position(1, 1), "statement") /\ cursor.pos = 0

C9_Witness ==
    /\ pc = "done"
    /\ EnteredAt("Statement", Keyword("return"))
    /\ ~config.allow_return
    /\ tokens = <<Keyword("return"), Punctuator(";")>>
    /\ result.err.kind = "Unexpected"
    /\ cursor.pos = 0

\* C10: Statement at the keyword `await` enters AwaitExpression only when
\* allow_await is TRUE; when it is FALSE the token is handled as the
\* Identifier arm handles its token: the goal is set to Div, the token
\* after it is peeked, and LabelledStatement is entered if that is `:`,
\* ExpressionStatement if not.
C10_AwaitOnlyAsync ==
    (pc = "done" /\ EnteredAt("Statement", Keyword("await"))) =>
        /\ config.allow_await => cursor.log[1] = "AwaitExpression"
        /\ ~config.allow_await =>
               /\ "AwaitExpression" \notin Range(cursor.log)
               /\ Len(cursor.log) >= 3
               /\ SubSeq(cursor.log, 1, 2) = <<"set_goal", "peek(1)">>
               /\ cursor.log[3] = (IF Len(tokens) >= 2 /\ tokens[2] = Punctuator(":") THEN "LabelledStatement" ELSE "ExpressionStatement")

\* The tokens StatementListItem checks against strict mode and in_block.
FunctionLike == {Keyword("function"), Keyword("async"), Keyword("class")}

\* C11: StatementListItem at `function`, `async` or `class` with the cursor
\* in strict mode and in_block = TRUE returns the Lex syntax error "Function
\* declaration in blocks not allowed in strict mode" at the start of that
\* token, has consumed no token and has not entered Declaration; with
\* strict mode off or in_block = FALSE it enters Declaration, and at `const`
\* or `let` it enters Declaration whatever strict mode and in_block are.
C11_StrictBlockFunction ==
    (pc = "done" /\ config.entry = "StatementListItem" /\ tokens # <<>>) =>
        /\ (tokens[1] \in FunctionLike /\ config.strict_mode /\ config.in_block) =>
               /\ result.err = LexSyntax("Function declaration in blocks not allowed in strict mode", Position(1, 1))
               /\ result.val = <<>>
               /\ cursor.pos = 0
               /\ cursor.log = <<>>
        /\ (tokens[1] \in FunctionLike /\ ~(config.strict_mode /\ config.in_block)) =>
               /\ cursor.log # <<>> /\ cursor.log[1] = "Declaration"
               /\ cursor.pos >= 1
        /\ tokens[1] \in {Keyword("const"), Keyword("let")} =>
               /\ cursor.log # <<>> /\ cursor.log[1] = "Declaration"
               /\ cursor.pos >= 1

C11_Witness ==
    /\ pc = "done"
    /\ config.entry = "StatementListItem"
    /\ config.strict_mode /\ config.in_block
    /\ tokens = Function("f")
    /\ result.err.kind = "Lex"
    /\ cursor.pos = 0

\* C16: StatementList with a non-empty break set returns AbruptEnd when its
\* loop finds the end of the input before a token of the break set.
C16_AbruptEndBeforeBreak ==
    (/\ pc = "done"
     /\ config.entry = "StatementList"
     /\ config.break_nodes # {}
     /\ frame.done
     /\ peek(cursor, 0) = EOF) =>
        result.err = AbruptEnd

(***************************************************************************)
(* Properties of BindingIdentifier (under SpecBinding).                    *)
(***************************************************************************)
\* BindingIdentifier has returned from an input whose first token is `tok`.
BindingAt(tok) == pc = "done" /\ config.entry = "BindingIdentifier" /\ tokens # <<>> /\ tokens[1] = tok

\* BindingIdentifier returned the symbol `name`.
Accepts(name) == IsOk(result) /\ result.val = name

\* C12: BindingIdentifier at the keyword `await` returns the symbol `await`
\* whenever the cursor's arrow flag is set, whatever allow_await and strict
\* mode are; with the arrow flag clear it returns the symbol `await` iff
\* allow_await is FALSE and strict mode is off, and an error otherwise.
C12_AwaitBinding ==
    BindingAt(Keyword("await")) =>
        /\ config.arrow => Accepts("await")
        /\ ~config.arrow => (Accepts("await") <=> (~config.allow_await /\ ~config.strict_mode))
        /\ ~Accepts("await") => (result.err # NoError /\ result.val = <<>>)

C12_Witness ==
    /\ BindingAt(Keyword("await"))
    /\ config.arrow /\ config.allow_await /\ config.strict_mode
    /\ Accepts("await")
    /\ cursor.pos = 1

\* C13: BindingIdentifier at the keyword `yield` returns the symbol `yield`
\* iff allow_yield is FALSE and the cursor is not in strict mode; with
\* allow_yield = TRUE it is an error in strict and in non-strict mode, with
\* allow_yield = FALSE in strict mode it is an error; in every case exactly
\* one token has been consumed.
C13_YieldBinding ==
    BindingAt(Keyword("yield")) =>
        /\ Accepts("yield") <=> (~config.allow_yield /\ ~config.strict_mode)
        /\ ~Accepts("yield") => (result.err # NoError /\ result.val = <<>>)
        /\ cursor.pos = 1

C13_Witness ==
    /\ BindingAt(Keyword("yield"))
    /\ ~config.allow_yield /\ config.strict_mode
    /\ result.err.kind = "General"
    /\ cursor.pos = 1

\* The names BindingIdentifier rejects in strict mode only.
StrictNames == {Identifier("arguments"), Identifier("eval"), Keyword("let")}

\* C14: BindingIdentifier in strict mode rejects the identifiers
\* `arguments` and `eval` and the keyword `let`; in non-strict mode it
\* returns each as its own symbol, whatever allow_yield and allow_await
\* are; a token that is neither an identifier nor one of the keywords let,
\* yield, await gives Expected("identifier") with context "binding
\* identifier"; the end of the input gives AbruptEnd.
C14_StrictNames ==
    (pc = "done" /\ config.entry = "BindingIdentifier") =>
        /\ \A tok \in StrictNames :
               (tokens # <<>> /\ tokens[1] = tok) =>
                   IF config.strict_mode THEN result.err # NoError /\ result.val = <<>>
                   ELSE Accepts(tok.sym)
        /\ (/\ tokens # <<>>
            /\ tokens[1].kind # "Identifier"
            /\ tokens[1] \notin {Keyword("let"), Keyword("yield"), Keyword("await")}) =>
               result.err = Expected("identifier", tokens[1].sym, Position(1, 1), "binding identifier")
        /\ tokens = <<>> => result.err = AbruptEnd

C14_Witness ==
    /\ BindingAt(Keyword("let"))
    /\ config.strict_mode
    /\ result.err # NoError
    /\ cursor.pos = 1

\* C15: every rejection by BindingIdentifier of `arguments`, `eval`, `let`,
\* `yield` or `await` in strict mode is a General error at the start of the
\* rejected token.
C15_StrictRejectionGeneral ==
    (/\ pc = "done"
     /\ config.entry = "BindingIdentifier"
     /\ config.strict_mode
     /\ tokens # <<>>
     /\ tokens[1] \in StrictOnly
     /\ result.err # NoError) =>
        /\ result.err.kind = "General"
        /\ result.err.position = Position(1, 1)

(***************************************************************************)
(* Properties of ObjectBindingPattern (under SpecPattern).                 *)
(***************************************************************************)
\* ObjectBindingPattern has returned a list.
ObjectDone == pc = "done" /\ config.entry = "ObjectBindingPattern" /\ IsOk(result)

\* Among the tokens consumed there is a `...` directly inside the entered
\* pattern.
RestConsumed == \E i \in 2..cursor.pos : tokens[i] = Punctuator("...") /\ Depth(i) = 1

IsElement(descriptor) == descriptor.type \in {"SingleName", "BindingPattern"}

\* The property symbol an element descriptor is keyed by.
KeyOf(element) == IF element.type = "SingleName" THEN element.property_name.name ELSE element.ident.name

\* The property symbol of the element that starts at the cursor `c`.
KeyAt(c) == IF peek(c, 0) = Punctuator("[") THEN peek(c, 1).sym ELSE peek(c, 0).sym

\* The shape of the list ObjectBindingPattern returned, against its input.
ObjectResultShape ==
    ObjectDone =>
        /\ result.val # <<>>
        /\ result.val = <<Empty>> <=> tokens[2] = Punctuator("}")
        /\ (\E i \in 1..Len(result.val) : result.val[i] = Empty) => result.val = <<Empty>>
        /\ (Len(result.val) = 1 /\ result.val[1].type = "RestProperty") <=> tokens[2] = Punctuator("...")
        /\ result.val[Len(result.val)].type = "RestProperty" <=> RestConsumed
        /\ \A i \in 1..(Len(result.val) - 1) : IsElement(result.val[i])
        /\ tokens[2] \notin {Punctuator("}"), Punctuator("...")} =>
               /\ IsElement(result.val[1])
               /\ SubSeq(result.val, 1, Len(frame.patterns)) = frame.patterns
               /\ Len(result.val) = Len(frame.patterns) + (IF RestConsumed THEN 1 ELSE 0)

\* An iteration of the loop leaves the elements parsed so far in place and
\* adds at most one, the one that starts at the cursor, at the end.
ObjectSourceOrder ==
    (pc = "loop" /\ config.entry = "ObjectBindingPattern" /\ frame'.err = NoError) =>
        \/ frame'.patterns = frame.patterns
        \/ /\ Len(frame'.patterns) = Len(frame.patterns) + 1
           /\ SubSeq(frame'.patterns, 1, Len(frame.patterns)) = frame.patterns
           /\ KeyOf(frame'.patterns[Len(frame'.patterns)]) = KeyAt(frame.c)

\* C17: the list ObjectBindingPattern returns is never empty; it is [Empty]
\* iff the pattern has no element and no rest, a RestProperty alone iff a
\* rest comes with no element before it, and otherwise the elements parsed,
\* in the order of the source, followed by a RestProperty iff there is a
\* rest; Empty never stands with another descriptor.
C17_ObjectResultShape == []ObjectResultShape /\ [][ObjectSourceOrder]_vars

C17_Witness ==
    /\ ObjectDone
    /\ tokens = ExcludedKeysExample
    /\ Len(result.val) = 3
    /\ result.val[1].type = "SingleName" /\ result.val[1].ident = "a"
    /\ result.val[2].type = "SingleName" /\ result.val[2].ident = "c"
    /\ result.val[3].type = "RestProperty"

\* The property name of an element descriptor.
PropertyOf(element) == IF element.type = "SingleName" THEN element.property_name ELSE element.ident

RECURSIVE StaticKeys(_)
\* The property symbols of `elements`, in order and with repeats; a computed
\* property name has none.
StaticKeys(elements) ==
    IF elements = <<>> THEN <<>>
    ELSE (IF PropertyOf(Head(elements)).computed THEN <<>> ELSE <<PropertyOf(Head(elements)).name>>)
             \o StaticKeys(Tail(elements))

RECURSIVE ExcludedKeysRight(_)
\* In `patterns` and in every object pattern nested in it, the excluded keys
\* of a RestProperty are the property symbols of the elements before it.
ExcludedKeysRight(patterns) ==
    \A i \in 1..Len(patterns) :
        /\ patterns[i].type = "RestProperty" =>
               patterns[i].excluded_keys = StaticKeys(SubSeq(patterns, 1, i - 1))
        /\ (patterns[i].type = "BindingPattern" /\ patterns[i].pattern.form = "Object") =>
               ExcludedKeysRight(patterns[i].pattern.bindings)

\* The excluded keys of the RestProperty that ends the returned list.
ExcludedKeys == result.val[Len(result.val)].excluded_keys

AtCloseBrace == pc = "loop" /\ config.entry = "ObjectBindingPattern" /\ peek(frame.c, 0) = Punctuator("}")

\* C19: when an iteration of ObjectBindingPattern's loop starts at `}`, the
\* recogniser consumes exactly that token and returns a list, whatever
\* follows the `}`, the end of the input included.
C19_CloseBraceFinishes ==
    [][AtCloseBrace => (pc' = "done" /\ IsOk(result') /\ cursor'.pos = cursor.pos + 1)]_vars

\* ObjectBindingPattern has returned, a list or an error.
ObjectReturned == pc = "done" /\ config.entry = "ObjectBindingPattern"

\* The input starts with the tokens `prefix`.
StartsWith(prefix) == Len(tokens) >= Len(prefix) /\ SubSeq(tokens, 1, Len(prefix)) = prefix

\* The descriptor of the shorthand element `a`.
ShorthandA ==
    [type |-> "SingleName", ident |-> "a", property_name |-> [computed |-> FALSE, name |-> "a"], default_init |-> NoneOpt]

\* The error of BindingIdentifier at a `,` that is the i-th token.
CommaNotIdentifier(i) == Expected("identifier", ",", Position(1, i), "binding identifier")

\* A comma in the first place, or a second comma in a row, with a token
\* after it is rejected; no list is returned from an input in which such a
\* comma was consumed.
NoObjectElision ==
    ObjectReturned =>
        /\ (StartsWith(<<Punctuator("{"), Punctuator(",")>>) /\ Len(tokens) > 2) => result.err = CommaNotIdentifier(2)
        /\ (StartsWith(<<Punctuator("{"), Identifier("a"), Punctuator(","), Punctuator(",")>>) /\ Len(tokens) > 4) =>
               result.err = CommaNotIdentifier(4)
        /\ IsOk(result) =>
               \A i \in 2..cursor.pos :
                   (tokens[i] = Punctuator(",") /\ Depth(i) = 1) => (i > 2 /\ tokens[i - 1] # Punctuator(","))

\* `{ a , }` returns the list that `{ a }` returns.
TrailingCommaAccepted ==
    ObjectReturned =>
        /\ StartsWith(<<Punctuator("{"), Identifier("a"), Punctuator(","), Punctuator("}")>>) =>
               IsOk(result) /\ result.val = <<ShorthandA>> /\ cursor.pos = 4
        /\ (StartsWith(<<Punctuator("{"), Identifier("a"), Punctuator("}")>>) /\ IsOk(result)) =>
               result.val = <<ShorthandA>> /\ cursor.pos = 3

\* C20: ObjectBindingPattern consumes at most one `,` after an element: one
\* trailing comma before `}` is accepted and gives the element list the
\* pattern without it gives, and a comma in the first place or a second
\* comma in a row (`{,a}`, `{a,,b}`) is rejected with Expected("identifier").
C20_SingleComma == NoObjectElision /\ TrailingCommaAccepted

(***************************************************************************)
(* Further properties of the statement dispatcher (under SpecStatement).   *)
(***************************************************************************)
\* Statement has returned from an input whose first token is an Identifier.
StatementAtIdentifier ==
    pc = "done" /\ config.entry = "Statement" /\ tokens # <<>> /\ tokens[1].kind = "Identifier"

\* The token after the first one is `:`.
ColonFollows == Len(tokens) >= 2 /\ tokens[2] = Punctuator(":")

\* The cursor the dispatcher hands on from the Identifier arm: no token
\* consumed, the goal Div, set before the one lookahead.
DispatchedCursor ==
    [pos |-> 0, strict_mode |-> config.strict_mode, arrow |-> FALSE, goal |-> "Div", log |-> <<"set_goal", "peek(1)">>]

\* C21: when the first token of Statement is an Identifier, set_goal(Div)
\* comes before the peek at offset 1, on the path to a labelled statement
\* and on the path to an expression statement; LabelledStatement is
\* entered iff the token at offset 1 is `:`, ExpressionStatement otherwise;
\* the dispatcher has consumed no token when it enters either, and it
\* never looks further ahead than offset 1.
C21_GoalBeforePeek ==
    StatementAtIdentifier =>
        /\ Len(cursor.log) >= 3
        /\ SubSeq(cursor.log, 1, 2) = <<"set_goal", "peek(1)">>
        /\ cursor.log[3] = (IF ColonFollows THEN "LabelledStatement" ELSE "ExpressionStatement")
        /\ cursor.goal = "Div"
        /\ "peek(2)" \notin Range(cursor.log)
        /\ result = Returned(IF ColonFollows
                             THEN LabelledStatement_parse(Statement_new(config.allow_yield, config.allow_await, config.allow_return),
                                                          DispatchedCursor)
                             ELSE ExpressionStatement_parse(Statement_new(config.allow_yield, config.allow_await, config.allow_return),
                                                            DispatchedCursor))

C21_Witness ==
    /\ StatementAtIdentifier
    /\ ~ColonFollows
    /\ tokens = <<Identifier("a"), Punctuator(";")>>
    /\ cursor.log = <<"set_goal", "peek(1)", "ExpressionStatement">>
    /\ IsOk(result)

(***************************************************************************)
(* Further properties of Script and parse_all (under Spec).                *)
(***************************************************************************)
\* The statement-list item the directive is parsed to.
DirectiveItem == [type |-> "Expression", tok |-> StringLiteral("use strict")]

\* Script consumes no token before ScriptBody's loop starts.
ScriptOnlyPeeks ==
    pc = "script" =>
        /\ cursor'.pos = cursor.pos
        /\ pc' = "items" => (frame'.c.pos = 0 /\ frame'.items = <<>>)

\* The first iteration of the loop on an input with the directive parses the
\* directive's string literal as an item.
DirectiveParsedFirst ==
    (pc = "items" /\ HasDirective /\ frame.items = <<>> /\ frame'.err = NoError) =>
        frame'.items = <<DirectiveItem>>

\* The list returned from an input with the directive holds the directive's
\* item, and one item per phrase of the script.
DirectiveReturned ==
    (HasDirective /\ ScriptParsed /\ IsOk(result)) =>
        /\ DirectiveItem \in Range(result.val.items)
        /\ \A s \in SeqsUpTo(ItemPhrases, MaxItems) :
               tokens = Flatten(s) => Len(result.val.items) = Len(s)

\* C22: Script finds the directive by peeking: no token is consumed between
\* the entry of Script and the start of ScriptBody, the `use strict` string
\* literal is parsed as the first item of the statement list and is in the
\* list returned; the directive followed by n items returns n + 1 items.
C22_DirectivePeeked ==
    /\ [][ScriptOnlyPeeks]_vars
    /\ [][DirectiveParsedFirst]_vars
    /\ []DirectiveReturned

C22_Witness ==
    /\ Accepted
    /\ tokens = Directive \o <<Identifier("a"), Punctuator(";")>>
    /\ Len(result.val.items) = 2
    /\ result.val.items[1] = DirectiveItem

\* C23: the strict flag of the list parse_all returns is TRUE iff the first
\* token is the string literal `use strict`, whatever the strict_mode
\* argument of Parser::new was: a parser made with strict_mode = TRUE keeps
\* its cursor strict (a `var` of a name strict mode forbids is rejected),
\* and without the directive its list has strict = FALSE; the empty input
\* gives the empty list with strict = FALSE, which passes the validation
\* in every host context; the cursor's strict mode is never switched off.
C23_StrictFlagFromDirective ==
    /\ []((ScriptParsed /\ IsOk(result)) => (result.val.strict <=> HasDirective))
    /\ []((config.strict_mode /\ pc # "start") => cursor.strict_mode)
    /\ [][cursor.strict_mode => cursor'.strict_mode]_vars
    /\ [][(config.strict_mode /\ AtStrictOnlyBinding) =>
            (pc' = "done" /\ result'.err.kind \in {"Lex", "General"})]_vars
    /\ []((tokens = <<>> /\ pc = "done") =>
            (IsOk(result) /\ result.val = NodeStatementList(<<>>, FALSE) /\ cursor.pos = 0))

C23_Witness ==
    /\ Accepted
    /\ config.strict_mode
    /\ ~HasDirective
    /\ tokens = <<Identifier("a"), Punctuator(";")>>
    /\ cursor.strict_mode
    /\ result.val.strict = FALSE

\* The i-th entry of L has the name of an earlier entry, and the two are
\* not both function declarations.
DuplicateAt(i) == \E j \in 1..(i - 1) : L[j][1] = L[i][1] /\ ~(L[i][2] /\ L[j][2])

InVarAt(i) == ~L[i][2] /\ L[i][1] \in V

BoundAt(i) == has_binding(context, L[i][1])

NonConfigurableAt(i) == ~L[i][2] /\ configurable(context, L[i][1]) \in {"Some(false)", "None"}

FailsAt(i) == DuplicateAt(i) \/ InVarAt(i) \/ BoundAt(i) \/ NonConfigurableAt(i)

\* The error of the first of the four checks that the i-th entry fails.
ErrorAt(i) ==
    IF DuplicateAt(i) THEN MultipleTimes
    ELSE IF InVarAt(i) THEN InVarNames
    ELSE IF BoundAt(i) THEN MultipleTimes
    ELSE InVarNames

LexicalFails == \E i \in 1..Len(L) : FailsAt(i)

\* The first entry of L, in the order of the reordered list, that fails a check.
FirstFailing == CHOOSE i \in 1..Len(L) : FailsAt(i) /\ \A j \in 1..(i - 1) : ~FailsAt(j)

\* C24: parse_all reports the first failure in a fixed order: the entries of
\* L are visited in their order in the hoist-reordered list and for each
\* the checks are duplicate, membership in V, has_binding, non-configurable
\* global property; the has_binding check over V decides only when every
\* entry of L has passed all four.  `let x; var x; let x;` is reported as
\* "lexical name declared in var names".  Every error is at (1,1).
C24_FirstFailureReported ==
    (pc = "done" /\ ScriptParsed) =>
        /\ LexicalFails => result.err = ErrorAt(FirstFailing)
        /\ (~LexicalFails /\ VarBound) => result.err = InVarNames
        /\ (~LexicalFails /\ ~VarBound) => IsOk(result)
        /\ ~IsOk(result) => result.err.position = Position(1, 1)
        /\ (context = NoContext /\ tokens = Let("x") \o Var(Identifier("x")) \o Let("x")) => result.err = InVarNames

C24_Witness ==
    /\ Rejected
    /\ context = NoContext
    /\ tokens = Let("x") \o Var(Identifier("x")) \o Let("x")
    /\ DuplicateAt(2)
    /\ result.err = InVarNames

(***************************************************************************)
(* Further properties of the binding patterns (under SpecPattern).         *)
(***************************************************************************)
\* The descriptor of the array element `a`.
ElementA == [type |-> "SingleName", ident |-> "a", default_init |-> NoneOpt]

ArrayReturned == pc = "done" /\ config.entry = "ArrayBindingPattern"

\* `[a a]` returns the list that `[a, a]` returns.
ArrayNoCommaAccepted ==
    ArrayReturned =>
        /\ StartsWith(<<Punctuator("["), Identifier("a"), Identifier("a"), Punctuator("]")>>) =>
               IsOk(result) /\ result.val = <<ElementA, ElementA>> /\ cursor.pos = 4
        /\ StartsWith(<<Punctuator("["), Identifier("a"), Punctuator(","), Identifier("a"), Punctuator("]")>>) =>
               IsOk(result) /\ result.val = <<ElementA, ElementA>> /\ cursor.pos = 5

\* `{a a}` returns the list that `{a, a}` returns.
ObjectNoCommaAccepted ==
    ObjectReturned =>
        /\ StartsWith(<<Punctuator("{"), Identifier("a"), Identifier("a"), Punctuator("}")>>) =>
               IsOk(result) /\ result.val = <<ShorthandA, ShorthandA>> /\ cursor.pos = 4
        /\ (StartsWith(<<Punctuator("{"), Identifier("a"), Punctuator(","), Identifier("a"), Punctuator("}")>>) /\ IsOk(result)) =>
               result.val = <<ShorthandA, ShorthandA>> /\ cursor.pos = 5

\* C25: neither binding-pattern recogniser requires a comma between two
\* elements: two elements with no comma between them are accepted, by
\* ObjectBindingPattern with two SingleName descriptors and by
\* ArrayBindingPattern with two SingleName descriptors, as if one comma
\* stood between them.
C25_NoCommaRequired == ArrayNoCommaAccepted /\ ObjectNoCommaAccepted

(***************************************************************************)
(* Termination of the loops (under SpecLoops).                             *)
(***************************************************************************)
\* A loop of ArrayBindingPattern, ObjectBindingPattern or StatementList is
\* about to run an iteration.
InLoop == pc = "loop"

\* An iteration leaves the loop, with a result or an error, or consumes at
\* least one token.
LoopProgress == InLoop => (pc' = "done" /\ result'.returned) \/ (pc' = "loop" /\ cursor'.pos > cursor.pos)

\* Tokens are consumed in the order of the source: the cursor never moves
\* back nor past the end, and the input is not changed.
SourceOrder == cursor'.pos >= cursor.pos /\ cursor'.pos <= Len(tokens) /\ tokens' = tokens

\* The tokens left to read: the variant of the loops.
Remaining == Len(tokens) - cursor.pos

\* An iteration that stays in the loop decreases the variant.
VariantDecreases == (InLoop /\ pc' = "loop") => Remaining' < Remaining

\* The variant is a natural number, and a recogniser that has left its
\* loop has returned a result or an error.
RunsToReturn ==
    /\ Remaining \in 0..Len(tokens)
    /\ pc \in {"start", "loop", "done"}
    /\ pc = "done" <=> result.returned

\* C26: on every finite input the loops of ArrayBindingPattern,
\* ObjectBindingPattern and StatementList terminate with a result or an
\* error: an iteration leaves the loop by returning or consumes at least
\* one token, so the number of tokens left to read, which is never
\* negative, decreases with every iteration that stays in the loop; the
\* tokens are consumed in the order of the source.
C26_LoopsTerminate ==
    /\ [][LoopProgress]_vars
    /\ [][VariantDecreases]_vars
    /\ [][SourceOrder]_vars
    /\ []RunsToReturn

C26_Witness ==
    /\ pc = "done"
    /\ config.entry = "ArrayBindingPattern"
    /\ tokens = ElisionExample
    /\ cursor.pos = Len(tokens)
    /\ IsOk(result)

====
